---- MODULE Spec2Model ----
(***************************************************************************)
(* A model of the conversational product-recommendation agent:             *)
(* ContextManager (history, accumulated filters, rejected ids),            *)
(* FilterExtractor, IntentClassifier, LLMClient and Agent.process.         *)
(*                                                                         *)
(* Python values are tagged records (PyNone, PyStr, PyNum, PyList), a dict *)
(* is a function from its present keys to values, a query text is a        *)
(* sequence of characters, and a number is a fixed-point value with one    *)
(* decimal digit stored times ten (50.0 is 500, 4.5 is 45).                *)
(***************************************************************************)
EXTENDS Integers, Sequences, FiniteSets, TLC

VARIABLES
    conversation_history,   \* ContextManager.conversation_history
    accumulated_filters,    \* ContextManager.accumulated_filters
    rejected_product_ids,   \* ContextManager.rejected_product_ids
    valid_product_ids,      \* LLMClient.valid_product_ids
    product_lookup,         \* LLMClient.product_lookup
    call,                   \* the last operation: its name, arguments and collaborator outputs
    response,               \* what the last operation returned (or that it raised)
    appended,               \* the (user, agent) pairs appended since construction or the last reset()
    other_agent             \* the state of the second Agent instance, the one the calls are not made on

vars == <<conversation_history, accumulated_filters, rejected_product_ids,
          valid_product_ids, product_lookup, call, response, appended, other_agent>>

-----------------------------------------------------------------------------
(* Python values *)

PyNone == [t |-> "none"]
PyStr(s) == [t |-> "str", v |-> s]
PyNum(n) == [t |-> "num", v |-> n]
PyList(l) == [t |-> "list", v |-> l]
PyDict(d) == [t |-> "dict", v |-> d]

\* A str whose characters the code looks at is a PyText.
PyText(s) == [t |-> "text", v |-> s]

\* Python truthiness: None, "", 0, [] and {} are falsy.
Truthy(x) ==
    CASE x.t = "none" -> FALSE
      [] x.t = "str"  -> x.v # ""
      [] x.t = "num"  -> x.v # 0
      [] x.t = "list" -> x.v # <<>>
      [] x.t = "text" -> x.v # <<>>
      [] x.t = "dict" -> \E k \in DOMAIN x.v : x.v[k] # [t |-> "absent"]
      [] OTHER        -> TRUE

\* An exception propagating out of an operation
Raised == [t |-> "raise"]

\* A dict is a function over the keys its users know, a key that the dict
\* does not hold being mapped to Absent.
Absent == [t |-> "absent"]

\* the keys the dict holds
Keys(d) == {k \in DOMAIN d : d[k] # Absent}

\* dict.get(key, default)
GetD(d, k, default) == IF k \in DOMAIN d /\ d[k] # Absent THEN d[k] ELSE default

\* dict.get(key) with the default None
Get(d, k) == GetD(d, k, PyNone)

\* d[key] = value
Put(d, k, x) == [d EXCEPT ![k] = x]

Range(s) == {s[i] : i \in DOMAIN s}

\* list(set(l)): the members of l without duplicates, in the set's iteration
\* order, which the language does not fix.
ListOfSet(S) == {s \in [1..Cardinality(S) -> S] : Range(s) = S}

Min(a, b) == IF a <= b THEN a ELSE b

MinOf(S) == CHOOSE x \in S : \A y \in S : x <= y

MaxOf(S) == CHOOSE x \in S : \A y \in S : x >= y

-----------------------------------------------------------------------------
(* Text: a str that the code scans is a sequence of characters *)

UpperChars == <<"A","B","C","D","E","F","G","H","I","J","K","L","M","N","O","P","Q","R","S","T","U","V","W","X","Y","Z">>

LowerChars == <<"a","b","c","d","e","f","g","h","i","j","k","l","m","n","o","p","q","r","s","t","u","v","w","x","y","z">>

Digits == <<"0","1","2","3","4","5","6","7","8","9">>

LowerChar(c) ==
    IF \E i \in DOMAIN UpperChars : UpperChars[i] = c
    THEN LowerChars[CHOOSE i \in DOMAIN UpperChars : UpperChars[i] = c]
    ELSE c

\* str.lower()
Lower(s) == [i \in DOMAIN s |-> LowerChar(s[i])]

\* sub in s
Contains(s, sub) ==
    \E i \in 1..(Len(s) - Len(sub) + 1) : SubSeq(s, i, i + Len(sub) - 1) = sub

\* s[i:].startswith(sub)
StartsAt(s, i, sub) ==
    /\ i + Len(sub) - 1 <= Len(s)
    /\ SubSeq(s, i, i + Len(sub) - 1) = sub

IsDigit(c) == \E i \in DOMAIN Digits : Digits[i] = c

DigitVal(c) == (CHOOSE i \in DOMAIN Digits : Digits[i] = c) - 1

\* the first position >= i of s that holds no digit (Len(s) + 1 if none)
RECURSIVE DigitsEnd(_, _)
DigitsEnd(s, i) ==
    IF i <= Len(s) /\ IsDigit(s[i]) THEN DigitsEnd(s, i + 1) ELSE i

\* int(s[i:j]) for a run of digits
RECURSIVE IntOf(_, _, _)
IntOf(s, i, j) ==
    IF j <= i THEN 0 ELSE IntOf(s, i, j - 1) * 10 + DigitVal(s[j - 1])

\* the end of the match of \d+(?:\.\d+)? that starts at the digit s[i]
NumberEnd(s, i) ==
    LET j == DigitsEnd(s, i)
    IN IF j + 1 <= Len(s) /\ s[j] = "." /\ IsDigit(s[j + 1])
       THEN DigitsEnd(s, j + 1)
       ELSE j

\* float(s[i:NumberEnd(s, i)]), times ten (further decimals are cut)
FloatOf(s, i) ==
    LET j == DigitsEnd(s, i)
    IN IF NumberEnd(s, i) > j
       THEN IntOf(s, i, j) * 10 + DigitVal(s[j + 1])
       ELSE IntOf(s, i, j) * 10

-----------------------------------------------------------------------------
(* config.py *)

MAX_CONVERSATION_HISTORY == 10

MAX_RECOMMENDATIONS == 5

\* VAGUE_TERMS in the order of the dict literal; each mapping has one key.
VAGUE_TERMS ==
    << [term |-> <<"c","h","e","a","p">>, key |-> "price_max", value |-> 500],
       [term |-> <<"a","f","f","o","r","d","a","b","l","e">>, key |-> "price_max", value |-> 1000],
       [term |-> <<"e","x","p","e","n","s","i","v","e">>, key |-> "price_min", value |-> 5000],
       [term |-> <<"p","r","e","m","i","u","m">>, key |-> "price_min", value |-> 3000],
       [term |-> <<"b","u","d","g","e","t">>, key |-> "price_max", value |-> 750],
       [term |-> <<"h","i","g","h","-","e","n","d">>, key |-> "price_min", value |-> 4000],
       [term |-> <<"t","o","p","-","r","a","t","e","d">>, key |-> "rating_min", value |-> 45],
       [term |-> <<"b","e","s","t">>, key |-> "rating_min", value |-> 40] >>

-----------------------------------------------------------------------------
(* agent/context_manager.py *)

ListKeys == {"brand_include", "brand_exclude", "features"}

ScalarKeys == {"price_min", "price_max", "category", "rating_min"}

\* the keys of a filter dict, in the order FilterExtractor.extract builds it
FilterKeyOrder ==
    <<"price_min", "price_max", "brand_include", "brand_exclude",
      "category", "features", "rating_min">>

\* {}
EmptyDict == [k \in Range(FilterKeyOrder) |-> Absent]

\* add_turn trimming from the wrong end: the oldest turns are kept
add_turn_keeps_oldest(history, user_query, agent_response) ==
    LET h == Append(history, [user |-> user_query, agent |-> agent_response])
    IN IF Len(h) > MAX_CONVERSATION_HISTORY
       THEN SubSeq(h, 1, MAX_CONVERSATION_HISTORY)
       ELSE h

\* add_turn without the trimming
add_turn_untrimmed(history, user_query, agent_response) ==
    Append(history, [user |-> user_query, agent |-> agent_response])

\* ContextManager.add_turn: the history after appending the turn
add_turn(history, user_query, agent_response) ==
    LET h == Append(history, [user |-> user_query, agent |-> agent_response])
    IN IF Len(h) > MAX_CONVERSATION_HISTORY
       THEN SubSeq(h, Len(h) - MAX_CONVERSATION_HISTORY + 1, Len(h))
       ELSE h

\* update_filters keeping the value a scalar key already has
update_filters_item_keeps_existing(acc, key, value) ==
    IF value = PyNone
    THEN {acc}
    ELSE IF key \in ListKeys
         THEN LET got == Get(acc, key)
                  existing == IF Truthy(got) THEN got.v ELSE <<>>
                  new_list == IF value.t = "list" THEN value.v ELSE <<value>>
              IN {Put(acc, key, PyList(l)) :
                    l \in ListOfSet(Range(existing) \cup Range(new_list))}
         ELSE {IF Get(acc, key) = PyNone THEN Put(acc, key, value) ELSE acc}

\* update_filters replacing the list of a list key by the new one
update_filters_item_replaces_list(acc, key, value) ==
    IF value = PyNone
    THEN {acc}
    ELSE IF key \in ListKeys
         THEN LET new_list == IF value.t = "list" THEN value.v ELSE <<value>>
              IN {Put(acc, key, PyList(l)) : l \in ListOfSet(Range(new_list))}
         ELSE {Put(acc, key, value)}

\* update_filters with set(existing) ^ set(new_list) in place of the union
update_filters_item_symmetric_difference(acc, key, value) ==
    IF value = PyNone
    THEN {acc}
    ELSE IF key \in ListKeys
         THEN LET got == Get(acc, key)
                  existing == IF Truthy(got) THEN got.v ELSE <<>>
                  new_list == IF value.t = "list" THEN value.v ELSE <<value>>
              IN {Put(acc, key, PyList(l)) :
                    l \in ListOfSet((Range(existing) \ Range(new_list))
                                    \cup (Range(new_list) \ Range(existing)))}
         ELSE {Put(acc, key, value)}

\* the body of update_filters' loop for one item: the possible dicts after it
update_filters_item(acc, key, value) ==
    IF value = PyNone
    THEN {acc}
    ELSE IF key \in ListKeys
         THEN LET got == Get(acc, key)
                  existing == IF Truthy(got) THEN got.v ELSE <<>>
                  new_list == IF value.t = "list" THEN value.v ELSE <<value>>
              IN {Put(acc, key, PyList(l)) :
                    l \in ListOfSet(Range(existing) \cup Range(new_list))}
         ELSE {Put(acc, key, value)}

RECURSIVE update_filters_from(_, _, _)
update_filters_from(accs, new_filters, i) ==
    IF i > Len(FilterKeyOrder)
    THEN accs
    ELSE LET key == FilterKeyOrder[i]
             next == IF key \in Keys(new_filters)
                     THEN UNION {update_filters_item(a, key, new_filters[key]) : a \in accs}
                     ELSE accs
         IN update_filters_from(next, new_filters, i + 1)

\* ContextManager.update_filters: the possible accumulated filters after it
update_filters(acc, new_filters) == update_filters_from({acc}, new_filters, 1)

\* ContextManager.clear_filters
clear_filters == EmptyDict

-----------------------------------------------------------------------------
(* agent/intent_classifier.py *)

INTENT_SEARCH == <<"S","E","A","R","C","H">>

INTENT_REFINE == <<"R","E","F","I","N","E">>

INTENT_CLARIFY == <<"C","L","A","R","I","F","Y">>

INTENT_CHITCHAT == <<"C","H","I","T","C","H","A","T">>

\* config.INTENT_CLASSES
INTENT_CLASSES == {INTENT_SEARCH, INTENT_REFINE, INTENT_CLARIFY, INTENT_CHITCHAT}

UpperChar(c) ==
    IF \E i \in DOMAIN LowerChars : LowerChars[i] = c
    THEN UpperChars[CHOOSE i \in DOMAIN LowerChars : LowerChars[i] = c]
    ELSE c

\* str.upper()
Upper(s) == [i \in DOMAIN s |-> UpperChar(s[i])]

greetings ==
    { <<"h","e","l","l","o">>, <<"h","i">>, <<"h","e","y">>,
      <<"t","h","a","n","k","s">>, <<"t","h","a","n","k"," ","y","o","u">> }

clarify_words ==
    { <<"w","h","a","t">>, <<"h","o","w">>, <<"w","h","y">>,
      <<"e","x","p","l","a","i","n">>, <<"t","e","l","l"," ","m","e">> }

refine_words ==
    { <<"a","l","s","o">>, <<"a","n","d">>, <<"b","u","t">>,
      <<"e","x","c","e","p","t">>, <<"n","o","t">>, <<"w","i","t","h","o","u","t">> }

\* the heuristic with the refinement rule checked first
_fallback_classify_refine_first(query, history) ==
    LET query_lower == Lower(query)
    IN IF (\E rw \in refine_words : Contains(query_lower, rw)) /\ history # <<>>
       THEN [intent |-> INTENT_REFINE, confidence |-> 6]
       ELSE IF \E g \in greetings : Contains(query_lower, g)
       THEN [intent |-> INTENT_CHITCHAT, confidence |-> 7]
       ELSE IF (\E cw \in clarify_words : Contains(query_lower, cw)) /\ Contains(query, <<"?">>)
       THEN [intent |-> INTENT_CLARIFY, confidence |-> 6]
       ELSE [intent |-> INTENT_SEARCH, confidence |-> 5]

\* IntentClassifier._fallback_classify; a confidence is stored times ten
_fallback_classify(query, history) ==
    LET query_lower == Lower(query)
    IN IF \E g \in greetings : Contains(query_lower, g)
       THEN [intent |-> INTENT_CHITCHAT, confidence |-> 7]
       ELSE IF (\E cw \in clarify_words : Contains(query_lower, cw)) /\ Contains(query, <<"?">>)
       THEN [intent |-> INTENT_CLARIFY, confidence |-> 6]
       ELSE IF (\E rw \in refine_words : Contains(query_lower, rw)) /\ history # <<>>
       THEN [intent |-> INTENT_REFINE, confidence |-> 6]
       ELSE [intent |-> INTENT_SEARCH, confidence |-> 5]

\* The model collaborator's answer to a structured request: it raised or its
\* output failed parsing (LlmFailed), or the parsed object.
LlmFailed == [t |-> "failed"]

LlmParsed(obj) == [t |-> "parsed", v |-> obj]

\* classify returning the parsed intent and confidence as they are
classify_unvalidated(query, history, llm) ==
    IF llm.t = "parsed"
    THEN [intent |-> Upper(llm.v.intent), confidence |-> llm.v.confidence]
    ELSE _fallback_classify(query, history)

\* classify answering a failure with the default intent
classify_default_on_failure(query, history, llm) ==
    IF llm.t = "parsed"
    THEN LET up == Upper(llm.v.intent)
             intent == IF up \notin INTENT_CLASSES THEN INTENT_SEARCH ELSE up
             c == llm.v.confidence
         IN [intent |-> intent,
             confidence |-> IF c < 10 THEN (IF c > 0 THEN c ELSE 0) ELSE 10]
    ELSE [intent |-> INTENT_SEARCH, confidence |-> 5]

\* IntentClassifier.classify, given the outcome of llm.invoke and parser.parse
classify(query, history, llm) ==
    IF llm.t = "parsed"
    THEN LET up == Upper(llm.v.intent)
             intent == IF up \notin INTENT_CLASSES THEN INTENT_SEARCH ELSE up
             c == llm.v.confidence
         IN [intent |-> intent,
             confidence |-> IF c < 10 THEN (IF c > 0 THEN c ELSE 0) ELSE 10]
    ELSE _fallback_classify(query, history)

-----------------------------------------------------------------------------
(* agent/filter_extractor.py *)

\* _apply_vague_terms without the test that the key is still None
RECURSIVE _apply_vague_terms_overrides_from(_, _, _)
_apply_vague_terms_overrides_from(query_lower, filters, i) ==
    IF i > Len(VAGUE_TERMS)
    THEN filters
    ELSE LET m == VAGUE_TERMS[i]
             next == IF Contains(query_lower, m.term)
                     THEN Put(filters, m.key, PyNum(m.value))
                     ELSE filters
         IN _apply_vague_terms_overrides_from(query_lower, next, i + 1)

_apply_vague_terms_overrides(query, filters) ==
    _apply_vague_terms_overrides_from(Lower(query), filters, 1)

\* FilterExtractor._apply_vague_terms, terms i.. of VAGUE_TERMS
RECURSIVE _apply_vague_terms_from(_, _, _)
_apply_vague_terms_from(query_lower, filters, i) ==
    IF i > Len(VAGUE_TERMS)
    THEN filters
    ELSE LET m == VAGUE_TERMS[i]
             next == IF Contains(query_lower, m.term) /\ Get(filters, m.key) = PyNone
                     THEN Put(filters, m.key, PyNum(m.value))
                     ELSE filters
         IN _apply_vague_terms_from(query_lower, next, i + 1)

_apply_vague_terms(query, filters) == _apply_vague_terms_from(Lower(query), filters, 1)

\* the body of _merge_filters' loop for one item: the possible dicts after
\* it, or Raised (a list plus a value that is no list is a TypeError)
_merge_filters_item(merged, key, value) ==
    IF value = PyNone
    THEN {merged}
    ELSE IF key \in ListKeys
         THEN LET got == Get(merged, key)
                  existing_list == IF Truthy(got) THEN got.v ELSE <<>>
                  new_list == IF Truthy(value) THEN value.v ELSE <<>>
              IN IF Truthy(value) /\ value.t # "list"
                 THEN {Raised}
                 ELSE {Put(merged, key, PyList(l)) :
                         l \in ListOfSet(Range(existing_list) \cup Range(new_list))}
         ELSE {Put(merged, key, value)}

RECURSIVE _merge_filters_from(_, _, _)
_merge_filters_from(mergeds, new, i) ==
    IF i > Len(FilterKeyOrder)
    THEN mergeds
    ELSE LET key == FilterKeyOrder[i]
             next == IF key \in Keys(new)
                     THEN UNION {IF m = Raised THEN {Raised}
                                 ELSE _merge_filters_item(m, key, new[key]) : m \in mergeds}
                     ELSE mergeds
         IN _merge_filters_from(next, new, i + 1)

\* FilterExtractor._merge_filters: the possible merged dicts (or Raised)
_merge_filters(existing, new) == _merge_filters_from({existing}, new, 1)

\* re.findall(r'\$?(\d+(?:\.\d+)?)', query) from position i, as floats
RECURSIVE FindPrices(_, _)
FindPrices(s, i) ==
    IF i > Len(s)
    THEN <<>>
    ELSE IF IsDigit(s[i])
         THEN <<FloatOf(s, i)>> \o FindPrices(s, NumberEnd(s, i))
         ELSE FindPrices(s, i + 1)

\* the first position >= i of s that holds no white space
RECURSIVE SpacesEnd(_, _)
SpacesEnd(s, i) ==
    IF i <= Len(s) /\ s[i] = " " THEN SpacesEnd(s, i + 1) ELSE i

\* r'(\d+(?:\.\d+)?)\s*(?:star|rating)' matches at position i
RatingAt(s, i) ==
    /\ i <= Len(s)
    /\ IsDigit(s[i])
    /\ LET k == SpacesEnd(s, NumberEnd(s, i))
       IN \/ StartsAt(s, k, <<"s","t","a","r">>)
          \/ StartsAt(s, k, <<"r","a","t","i","n","g">>)

\* FilterExtractor._regex_extract
_regex_extract(query, existing_filters) ==
    LET query_lower == Lower(query)
        prices == FindPrices(query, 1)
        under == \/ Contains(query_lower, <<"u","n","d","e","r">>)
                 \/ Contains(query_lower, <<"l","e","s","s"," ","t","h","a","n">>)
                 \/ Contains(query_lower, <<"b","e","l","o","w">>)
        over == \/ Contains(query_lower, <<"o","v","e","r">>)
                \/ Contains(query_lower, <<"m","o","r","e"," ","t","h","a","n">>)
                \/ Contains(query_lower, <<"a","b","o","v","e">>)
        priced ==
            IF prices = <<>> THEN existing_filters
            ELSE IF under THEN Put(existing_filters, "price_max", PyNum(MinOf(Range(prices))))
            ELSE IF over THEN Put(existing_filters, "price_min", PyNum(MaxOf(Range(prices))))
            ELSE IF Len(prices) = 1 THEN Put(existing_filters, "price_max", PyNum(prices[1]))
            ELSE existing_filters
        ratings == {i \in 1..Len(query_lower) : RatingAt(query_lower, i)}
    IN IF ratings = {}
       THEN priced
       ELSE Put(priced, "rating_min", PyNum(FloatOf(query_lower, MinOf(ratings))))

\* the dict extract builds from the parsed FilterOutput ("or []" on the lists)
ParsedFilters(parsed) ==
    [k \in DOMAIN parsed |->
        IF k \in ListKeys /\ ~Truthy(parsed[k]) THEN PyList(<<>>) ELSE parsed[k]]

\* FilterExtractor.extract, given the outcome of llm.invoke and parser.parse:
\* the possible results
extract(query, history, existing_filters, llm) ==
    IF llm.t = "parsed"
    THEN {IF merged = Raised THEN _regex_extract(query, existing_filters) ELSE merged :
            merged \in _merge_filters(existing_filters,
                                      _apply_vague_terms(query, ParsedFilters(llm.v)))}
    ELSE {_regex_extract(query, existing_filters)}

-----------------------------------------------------------------------------
(* agent/llm_client.py *)

\* a or b
Or(a, b) == IF Truthy(a) THEN a ELSE b

\* hash(x) raises TypeError for a list and a dict
Unhashable(x) == x.t \in {"list", "dict"}

\* A candidate product is a record with id, name, brand, category, price and
\* rating; its id is a non-empty str.

\* LLMClient._load_product_catalog: valid_product_ids
CatalogIds(products) == {PyStr(products[i].id) : i \in DOMAIN products}

\* LLMClient._load_product_catalog: product_lookup, as the set of its
\* (id, product) items (a later product of the same id replaces an earlier one)
CatalogLookup(products) ==
    {<<id, products[MaxOf({i \in DOMAIN products : PyStr(products[i].id) = id})]>> :
        id \in CatalogIds(products)}

\* product_id in self.product_lookup
InLookup(lookup, id) == \E item \in lookup : item[1] = id

\* self.product_lookup[product_id]
Lookup(lookup, id) == (CHOOSE item \in lookup : item[1] = id)[2]

\* the loop body of _validate_response without the check of the id against
\* the catalog
ValidateRec_any_id(recommendations, rec, valid, lookup) ==
    IF rec.t # "dict"
    THEN PyList(recommendations)
    ELSE LET product_id == GetD(rec.v, "product_id", PyStr(""))
             reasoning == GetD(rec.v, "reasoning", PyStr(""))
             product_name == GetD(rec.v, "product_name", PyStr(""))
         IN IF Unhashable(product_id)
            THEN Raised
            ELSE LET name == IF ~Truthy(product_name) /\ InLookup(lookup, product_id)
                             THEN PyStr(Lookup(lookup, product_id).name)
                             ELSE product_name
                 IN PyList(Append(recommendations,
                           [product_id |-> Or(product_id, PyStr("unknown_id")),
                            product_name |-> Or(name, PyStr("Unknown Product")),
                            reasoning |-> Or(reasoning, PyStr("Recommended based on your preferences"))]))

\* one iteration of the loop over recs[:MAX_RECOMMENDATIONS]: the list after
\* it (a PyList), or Raised
ValidateRec(recommendations, rec, valid, lookup) ==
    IF rec.t # "dict"
    THEN PyList(recommendations)
    ELSE LET product_id == GetD(rec.v, "product_id", PyStr(""))
             reasoning == GetD(rec.v, "reasoning", PyStr(""))
             product_name == GetD(rec.v, "product_name", PyStr(""))
         IN IF valid # {} /\ Unhashable(product_id)
            THEN Raised
            ELSE IF ~(valid = {} \/ product_id \in valid)
            THEN PyList(recommendations)
            ELSE IF ~Truthy(product_name) /\ Unhashable(product_id)
            THEN Raised
            ELSE LET name == IF ~Truthy(product_name) /\ InLookup(lookup, product_id)
                             THEN PyStr(Lookup(lookup, product_id).name)
                             ELSE product_name
                 IN PyList(Append(recommendations,
                           [product_id |-> Or(product_id, PyStr("unknown_id")),
                            product_name |-> Or(name, PyStr("Unknown Product")),
                            reasoning |-> Or(reasoning, PyStr("Recommended based on your preferences"))]))

\* the loop of _validate_response over recs instead of recs[:MAX_RECOMMENDATIONS]
RECURSIVE ValidateRecs_uncapped(_, _, _, _, _)
ValidateRecs_uncapped(recommendations, recs, i, valid, lookup) ==
    IF i > Len(recs)
    THEN PyList(recommendations)
    ELSE LET next == ValidateRec(recommendations, recs[i], valid, lookup)
         IN IF next = Raised THEN Raised
            ELSE ValidateRecs_uncapped(next.v, recs, i + 1, valid, lookup)

\* the loop of _validate_response going on until MAX_RECOMMENDATIONS entries
\* are kept: a dropped entry is replaced by a later one
RECURSIVE ValidateRecs_refilled(_, _, _, _, _)
ValidateRecs_refilled(recommendations, recs, i, valid, lookup) ==
    IF i > Len(recs) \/ Len(recommendations) >= MAX_RECOMMENDATIONS
    THEN PyList(recommendations)
    ELSE LET next == ValidateRec(recommendations, recs[i], valid, lookup)
         IN IF next = Raised THEN Raised
            ELSE ValidateRecs_refilled(next.v, recs, i + 1, valid, lookup)

RECURSIVE ValidateRecs(_, _, _, _, _)
ValidateRecs(recommendations, recs, i, valid, lookup) ==
    IF i > Min(Len(recs), MAX_RECOMMENDATIONS)
    THEN PyList(recommendations)
    ELSE LET next == ValidateRec(recommendations, recs[i], valid, lookup)
         IN IF next = Raised THEN Raised
            ELSE ValidateRecs(next.v, recs, i + 1, valid, lookup)

\* no recommendation is built from the catalog
FallbackRecs_none(valid, lookup, reasoning) == {<<>>}

\* the recommendation built from list(valid_product_ids)[0], whose choice
\* among the ids the language does not fix
FallbackRecs(valid, lookup, reasoning) ==
    {<<[product_id |-> first_id,
        product_name |-> PyStr(Lookup(lookup, first_id).name),
        reasoning |-> PyStr(reasoning)]>> : first_id \in valid}

\* str.strip()
RECURSIVE Strip(_)
Strip(s) ==
    IF s = <<>> THEN s
    ELSE IF Head(s) = " " THEN Strip(Tail(s))
    ELSE IF s[Len(s)] = " " THEN Strip(SubSeq(s, 1, Len(s) - 1))
    ELSE s

\* the decimal digits of a natural number
RECURSIVE DigitsOf(_)
DigitsOf(n) ==
    IF n < 10 THEN <<Digits[n + 1]>> ELSE Append(DigitsOf(n \div 10), Digits[(n % 10) + 1])

\* str(q) of a str or of a non-negative float
Str(q) ==
    IF q.t = "text" THEN q.v
    ELSE DigitsOf(q.v \div 10) \o <<".">> \o DigitsOf(q.v % 10)

\* [str(q).strip() for q in follow_up_questions[:3] if q and str(q).strip()]
RECURSIVE FollowUps(_, _)
FollowUps(qs, i) ==
    IF i > Min(Len(qs), 3)
    THEN <<>>
    ELSE IF Truthy(qs[i]) /\ Strip(Str(qs[i])) # <<>>
         THEN <<PyText(Strip(Str(qs[i])))>> \o FollowUps(qs, i + 1)
         ELSE FollowUps(qs, i + 1)

DEFAULT_SUMMARY == PyStr("Product recommendations based on your query")

\* LLMClient._validate_response: the possible outcomes, each a result or Raised
_validate_response(parsed, valid, lookup) ==
    IF parsed.t # "dict"
    THEN {Raised}
    ELSE LET recs == GetD(parsed.v, "recommendations", PyList(<<>>))
             checked == IF recs.t = "list"
                        THEN ValidateRecs(<<>>, recs.v, 1, valid, lookup)
                        ELSE PyList(<<>>)
             fu == GetD(parsed.v, "follow_up_questions", PyList(<<>>))
             follow_up_questions == IF fu.t = "list" THEN FollowUps(fu.v, 1) ELSE <<>>
             summary == GetD(parsed.v, "summary", DEFAULT_SUMMARY)
         IN IF checked = Raised
            THEN {Raised}
            ELSE {[recommendations |-> r,
                   summary |-> summary,
                   follow_up_questions |-> follow_up_questions] :
                     r \in IF checked.v = <<>> /\ valid # {}
                           THEN FallbackRecs(valid, lookup, "Fallback recommendation")
                           ELSE {checked.v}}

FALLBACK_QUESTIONS ==
    << PyText(<<"W","o","u","l","d"," ","y","o","u"," ","l","i","k","e"," ","t","o"," ","s","e","e"," ","m","o","r","e"," ","o","p","t","i","o","n","s","?">>),
       PyText(<<"D","o"," ","y","o","u"," ","h","a","v","e"," ","a"," ","s","p","e","c","i","f","i","c"," ","b","u","d","g","e","t"," ","i","n"," ","m","i","n","d","?">>),
       PyText(<<"A","r","e"," ","t","h","e","r","e"," ","a","n","y"," ","p","a","r","t","i","c","u","l","a","r"," ","f","e","a","t","u","r","e","s"," ","y","o","u","'","r","e"," ","l","o","o","k","i","n","g"," ","f","o","r","?">>) >>

FALLBACK_SUMMARY == PyStr("Unable to process request fully.")

\* _fallback_response without the recommendation taken from the catalog
_fallback_response_no_product(valid, lookup) ==
    {[recommendations |-> <<>>,
      summary |-> FALLBACK_SUMMARY,
      follow_up_questions |-> FALLBACK_QUESTIONS]}

\* LLMClient._fallback_response: the possible results
_fallback_response(valid, lookup) ==
    {[recommendations |-> r,
      summary |-> FALLBACK_SUMMARY,
      follow_up_questions |-> FALLBACK_QUESTIONS] :
        r \in IF valid # {}
              THEN FallbackRecs(valid, lookup, "Fallback recommendation due to processing error")
              ELSE {<<>>}}

\* What one llm.invoke gives: it raises (ReplyRaises), or returns a content
\* on which json.loads(_extract_json(content)) raises (ReplyNoJson: an empty
\* text, prose, a truncated object) or returns a value (ReplyJson).
ReplyRaises == [t |-> "raises"]

ReplyNoJson == [t |-> "nojson"]

ReplyJson(x) == [t |-> "json", v |-> x]

\* the body of the try block of one attempt: the possible outcomes
AttemptOutcomes(reply, valid, lookup) ==
    IF reply.t = "json" THEN _validate_response(reply.v, valid, lookup) ELSE {Raised}

\* get_recommendations giving up at the first failed attempt
get_recommendations_no_retry(replies, attempt, max_retries, valid, lookup) ==
    LET outs == AttemptOutcomes(replies[attempt + 1], valid, lookup)
    IN UNION {
         IF o = Raised
         THEN {[result |-> r, invocations |-> attempt + 1] :
                  r \in _fallback_response(valid, lookup)}
         ELSE {[result |-> o, invocations |-> attempt + 1]} : o \in outs}

\* LLMClient.get_recommendations from attempt number `attempt` (0-based) on,
\* replies[k] being what the k-th invocation of the model gives: the possible
\* (result, number of invocations made) pairs
RECURSIVE get_recommendations_from(_, _, _, _, _)
get_recommendations_from(replies, attempt, max_retries, valid, lookup) ==
    IF attempt > max_retries
    THEN {[result |-> r, invocations |-> attempt] : r \in _fallback_response(valid, lookup)}
    ELSE LET outs == AttemptOutcomes(replies[attempt + 1], valid, lookup)
         IN UNION {
              IF o = Raised
              THEN IF attempt = max_retries
                   THEN {[result |-> r, invocations |-> attempt + 1] :
                            r \in _fallback_response(valid, lookup)}
                   ELSE get_recommendations_from(replies, attempt + 1, max_retries, valid, lookup)
              ELSE {[result |-> o, invocations |-> attempt + 1]} : o \in outs}

get_recommendations(replies, max_retries, valid, lookup) ==
    get_recommendations_from(replies, 0, max_retries, valid, lookup)

-----------------------------------------------------------------------------
(* agent/prompt_builder.py *)

\* agent_msg[:100] raises TypeError for a value that cannot be sliced
Unsliceable(x) == x.t \in {"num", "dict"}

\* PromptBuilder._format_conversation_summary raises: one of the last three
\* turns holds a truthy agent text that cannot be sliced
_format_conversation_summary_raises(history) ==
    \E i \in DOMAIN history :
        /\ i > Len(history) - 3
        /\ Truthy(history[i].agent)
        /\ Unsliceable(history[i].agent)

-----------------------------------------------------------------------------
(* agent/core.py *)

\* max_retries of the get_recommendations call in Agent.process (the default)
DEFAULT_MAX_RETRIES == 2

\* step 3 of process with the REFINE branch left out
ContextUpdate_refine_ignored(intent, acc, filters) ==
    IF intent = INTENT_SEARCH
    THEN update_filters(clear_filters, filters)
    ELSE {acc}

\* step 3 of process updating the filters whatever the intent
ContextUpdate_any_intent(intent, acc, filters) ==
    IF intent = INTENT_SEARCH
    THEN update_filters(clear_filters, filters)
    ELSE update_filters(acc, filters)

\* step 3 of Agent.process: the possible accumulated filters after it
ContextUpdate(intent, acc, filters) ==
    IF intent = INTENT_REFINE
    THEN update_filters(acc, filters)
    ELSE IF intent = INTENT_SEARCH
    THEN update_filters(clear_filters, filters)
    ELSE {acc}

\* the rejected-id filter without the return to the unfiltered list
FilterRejected_no_fallback(recommendations, rejected_ids) ==
    IF \E i \in DOMAIN recommendations : Unhashable(recommendations[i].product_id)
    THEN Raised
    ELSE LET Keep(r) == r.product_id \notin rejected_ids
         IN PyList(SelectSeq(recommendations, Keep))

\* the recommendations Agent.process returns, or Raised
\* (rec["product_id"] not in rejected_ids hashes the product_id)
FilterRejected(recommendations, rejected_ids) ==
    IF \E i \in DOMAIN recommendations : Unhashable(recommendations[i].product_id)
    THEN Raised
    ELSE LET Keep(i) == recommendations[i].product_id \notin rejected_ids
             kept == {i \in DOMAIN recommendations : Keep(i)}
             RECURSIVE Sel(_)
             Sel(i) == IF i > Len(recommendations) THEN <<>>
                       ELSE IF Keep(i) THEN <<recommendations[i]>> \o Sel(i + 1)
                       ELSE Sel(i + 1)
         IN IF kept = {} THEN PyList(recommendations) ELSE PyList(Sel(1))

NoCall == [op |-> "init"]

NoResponse == [t |-> "none"]

\* the state of an Agent after Agent.__init__: ContextManager.__init__ and
\* LLMClient.__init__ give the instance containers of its own
NewAgent ==
    [conversation_history |-> <<>>,
     accumulated_filters |-> EmptyDict,
     rejected_product_ids |-> {},
     valid_product_ids |-> {},
     product_lookup |-> {},
     appended |-> <<>>]

Init ==
    /\ conversation_history = <<>>
    /\ accumulated_filters = EmptyDict
    /\ rejected_product_ids = {}
    /\ valid_product_ids = {}
    /\ product_lookup = {}
    /\ call = NoCall
    /\ response = NoResponse
    /\ appended = <<>>
    /\ other_agent = NewAgent

\* Agent.process(user_query), given what the collaborators do during the call:
\* intent_llm and filter_llm are the outcomes of the two structured requests,
\* retrieval is Raised or the PyList of products the retriever returns, and
\* replies[k] is what the k-th invocation of the recommendation model gives.
Process(user_query, intent_llm, filter_llm, retrieval, replies) ==
    LET history == conversation_history
        intent == classify(user_query, history, intent_llm).intent
        this == [op |-> "process", query |-> user_query, intent |-> intent,
                 filter_llm |-> filter_llm, retrieval |-> retrieval]
    IN \E filters \in extract(user_query, history, accumulated_filters, filter_llm) :
       \E updated_filters \in ContextUpdate(intent, accumulated_filters, filters) :
         /\ accumulated_filters' = updated_filters
         /\ UNCHANGED rejected_product_ids
         /\ IF retrieval = Raised
            THEN /\ UNCHANGED other_agent
                 /\ call' = this
                 /\ response' = Raised
                 /\ UNCHANGED <<conversation_history, appended, valid_product_ids, product_lookup>>
            ELSE LET retrieved_products == retrieval.v
                     valid == IF retrieved_products # <<>>
                              THEN CatalogIds(retrieved_products) ELSE valid_product_ids
                     lookup == IF retrieved_products # <<>>
                               THEN CatalogLookup(retrieved_products) ELSE product_lookup
                 IN /\ valid_product_ids' = valid
                    /\ product_lookup' = lookup
                    /\ IF _format_conversation_summary_raises(history)
                       THEN /\ UNCHANGED other_agent
                            /\ call' = this
                            /\ response' = Raised
                            /\ UNCHANGED <<conversation_history, appended>>
                       ELSE \E out \in get_recommendations(replies, DEFAULT_MAX_RETRIES, valid, lookup) :
                            LET llm_response == out.result
                                filtered_recs == FilterRejected(llm_response.recommendations,
                                                                rejected_product_ids)
                                that == [op |-> "process", query |-> user_query, intent |-> intent,
                                         filter_llm |-> filter_llm, retrieval |-> retrieval,
                                         replies |-> SubSeq(replies, 1, out.invocations),
                                         llm_response |-> llm_response]
                            IN /\ UNCHANGED other_agent
                               /\ call' = that
                               /\ IF filtered_recs = Raised
                                  THEN /\ response' = Raised
                                       /\ UNCHANGED <<conversation_history, appended>>
                                  ELSE /\ conversation_history' =
                                            add_turn(conversation_history, user_query, llm_response.summary)
                                       /\ appended' = Append(appended,
                                            [user |-> user_query, agent |-> llm_response.summary])
                                       /\ response' =
                                            [t |-> "response",
                                             recommendations |-> filtered_recs.v,
                                             summary |-> llm_response.summary,
                                             intent |-> intent,
                                             filters |-> updated_filters,
                                             follow_up_questions |-> llm_response.follow_up_questions]

\* mark_rejected forgetting the ids marked before
MarkRejected_replaces(product_id) ==
    /\ rejected_product_ids' = {product_id}
    /\ UNCHANGED other_agent
    /\ call' = [op |-> "mark_rejected", product_id |-> product_id]
    /\ response' = NoResponse
    /\ UNCHANGED <<conversation_history, accumulated_filters, valid_product_ids,
                   product_lookup, appended>>

\* mark_rejected on a set that the instances share (a class attribute)
MarkRejected_shared(product_id) ==
    /\ rejected_product_ids' = rejected_product_ids \cup {product_id}
    /\ other_agent' = [other_agent EXCEPT
                         !.rejected_product_ids = @ \cup {product_id}]
    /\ call' = [op |-> "mark_rejected", product_id |-> product_id]
    /\ response' = NoResponse
    /\ UNCHANGED <<conversation_history, accumulated_filters, valid_product_ids,
                   product_lookup, appended>>

\* ContextManager.mark_rejected(product_id)
MarkRejected(product_id) ==
    /\ rejected_product_ids' = rejected_product_ids \cup {product_id}
    /\ UNCHANGED other_agent
    /\ call' = [op |-> "mark_rejected", product_id |-> product_id]
    /\ response' = NoResponse
    /\ UNCHANGED <<conversation_history, accumulated_filters, valid_product_ids,
                   product_lookup, appended>>

\* Agent.reset_session(), which is ContextManager.reset()
ResetSession ==
    /\ conversation_history' = <<>>
    /\ accumulated_filters' = EmptyDict
    /\ rejected_product_ids' = {}
    /\ appended' = <<>>
    /\ UNCHANGED other_agent
    /\ call' = [op |-> "reset"]
    /\ response' = NoResponse
    /\ UNCHANGED <<valid_product_ids, product_lookup>>

\* ContextManager.add_turn(user_query, agent_response)
AddTurn(user_query, agent_response) ==
    /\ conversation_history' = add_turn(conversation_history, user_query, agent_response)
    /\ appended' = Append(appended, [user |-> user_query, agent |-> agent_response])
    /\ UNCHANGED other_agent
    /\ call' = [op |-> "add_turn"]
    /\ response' = NoResponse
    /\ UNCHANGED <<accumulated_filters, rejected_product_ids, valid_product_ids, product_lookup>>

\* ContextManager.update_filters(new_filters)
UpdateFilters(new_filters) ==
    /\ accumulated_filters' \in update_filters(accumulated_filters, new_filters)
    /\ UNCHANGED other_agent
    /\ call' = [op |-> "update_filters", new_filters |-> new_filters]
    /\ response' = NoResponse
    /\ UNCHANGED <<conversation_history, rejected_product_ids, valid_product_ids,
                   product_lookup, appended>>

\* ContextManager.clear_filters()
ClearFilters ==
    /\ accumulated_filters' = clear_filters
    /\ UNCHANGED other_agent
    /\ call' = [op |-> "clear_filters"]
    /\ response' = NoResponse
    /\ UNCHANGED <<conversation_history, rejected_product_ids, valid_product_ids,
                   product_lookup, appended>>

\* LLMClient.update_product_catalog(products)
UpdateProductCatalog(products) ==
    /\ valid_product_ids' = CatalogIds(products)
    /\ product_lookup' = CatalogLookup(products)
    /\ UNCHANGED other_agent
    /\ call' = [op |-> "update_product_catalog", products |-> products]
    /\ response' = NoResponse
    /\ UNCHANGED <<conversation_history, accumulated_filters, rejected_product_ids, appended>>

\* LLMClient.get_recommendations(prompt, max_retries), replies[k] being what
\* the k-th invocation of the model gives
GetRecommendations(replies, max_retries) ==
    \E out \in get_recommendations(replies, max_retries, valid_product_ids, product_lookup) :
        /\ UNCHANGED other_agent
        /\ call' = [op |-> "get_recommendations", replies |-> replies,
                    max_retries |-> max_retries, invocations |-> out.invocations]
        /\ response' = [t |-> "result", v |-> out.result]
        /\ UNCHANGED <<conversation_history, accumulated_filters, rejected_product_ids,
                       valid_product_ids, product_lookup, appended>>

-----------------------------------------------------------------------------
(* The inputs the specifications draw from *)

Q_HELLO == <<"H","e","l","l","o","!">>

Q_WHAT == <<"W","h","a","t","?">>

Q_SHOW == <<"s","h","o","w"," ","m","e"," ","e","l","e","c","t","r","o","n","i","c","s">>

Q_UNDER == <<"b","u","t"," ","m","a","k","e"," ","i","t"," ","u","n","d","e","r"," ","$","5","0">>

Q_CHEAP == <<"I"," ","w","a","n","t"," ","s","o","m","e","t","h","i","n","g"," ","c","h","e","a","p">>

\* a filter dict that holds the keys of `set` only
Incoming(set) ==
    [k \in Range(FilterKeyOrder) |-> IF k \in DOMAIN set THEN set[k] ELSE Absent]

\* the outcome of a filter extraction request that parses to a FilterOutput
\* whose fields are None but those of `set`
FilterOutput(set) ==
    LlmParsed([k \in Range(FilterKeyOrder) |-> IF k \in DOMAIN set THEN set[k] ELSE PyNone])

F_NONE == FilterOutput([none |-> PyNone])

F_CATEGORY == FilterOutput([category |-> PyStr("electronics")])

F_PRICE == FilterOutput([price_max |-> PyNum(1000)])

F_BRAND_A == FilterOutput([brand_include |-> PyList(<<PyStr("sony")>>)])

F_BRAND_B == FilterOutput([brand_include |-> PyList(<<PyStr("bose")>>), price_max |-> PyNum(500)])

IntentOutput(intent, confidence) == LlmParsed([intent |-> intent, confidence |-> confidence])

P1 == [id |-> "p1", name |-> "Aero 13", brand |-> "acme", category |-> "laptops",
       price |-> 9000, rating |-> 45]

P2 == [id |-> "p2", name |-> "Zen 15", brand |-> "zeta", category |-> "laptops",
       price |-> 400, rating |-> 38]

\* a recommendation entry of a model reply
Rec(product_id, product_name, reasoning) ==
    PyDict([product_id |-> product_id, product_name |-> product_name, reasoning |-> reasoning])

\* a model reply that parses to an object
Reply(recommendations, summary, follow_up_questions) ==
    ReplyJson(PyDict([recommendations |-> recommendations, summary |-> summary,
                      follow_up_questions |-> follow_up_questions]))

REPLY_P1 ==
    Reply(PyList(<<Rec(PyStr("p1"), PyStr("Aero 13"), PyStr("light"))>>),
          PyStr("Here is a laptop"), PyList(<<PyText(<<"O","k","?">>)>>))

-----------------------------------------------------------------------------
(* Spec: sessions of a few turns in which the intents and the extracted     *)
(* filters vary                                                              *)

MaxTurns == 2

Queries == {Q_SHOW, Q_UNDER, Q_CHEAP}

IntentOutcomes ==
    {LlmFailed} \cup {IntentOutput(Lower(i), 9) : i \in INTENT_CLASSES}

FilterOutcomes == {LlmFailed, F_NONE, F_CATEGORY, F_PRICE, F_BRAND_A, F_BRAND_B}

ProcessTurn ==
    /\ Len(appended) < MaxTurns
    /\ \E q \in Queries, il \in IntentOutcomes, fl \in FilterOutcomes :
         Process(q, il, fl, PyList(<<P1>>), <<REPLY_P1, REPLY_P1, REPLY_P1>>)

Next ==
    \/ ProcessTurn
    \/ ResetSession

Spec == Init /\ [][Next]_vars

-----------------------------------------------------------------------------
(* Claims about the intent-driven filter transition (Spec) *)

\* the members of the list the dict holds under a key
Members(d, k) == IF Truthy(Get(d, k)) THEN Range(Get(d, k).v) ELSE {}

\* The filters a query supplies by itself: what the extractor returns for it
\* when there are no existing filters.
NewlyExtracted(query, filter_llm) == extract(query, <<>>, EmptyDict, filter_llm)

SuppliesScalar(c, k, x) ==
    \E s \in NewlyExtracted(c.query, c.filter_llm) : Get(s, k) = x

SuppliesMember(c, k, m) ==
    \E s \in NewlyExtracted(c.query, c.filter_llm) : m \in Members(s, k)

\* C1: a process call classified SEARCH clears the accumulated filters and
\* merges in only what the current query supplies: a scalar value or a list
\* member accumulated earlier and not supplied by the current query is gone
\* from the accumulated filters (and from response.filters) after the call.
C1_SearchKeepsOnlyNewFilters ==
    [][ (call'.op = "process" /\ call'.intent = INTENT_SEARCH) =>
          /\ \A k \in ScalarKeys :
                (Get(accumulated_filters, k) # PyNone
                   /\ Get(accumulated_filters', k) = Get(accumulated_filters, k))
                => SuppliesScalar(call', k, Get(accumulated_filters, k))
          /\ \A k \in ListKeys :
                \A m \in Members(accumulated_filters, k) \cap Members(accumulated_filters', k) :
                   SuppliesMember(call', k, m)
          /\ response'.t = "response" => response'.filters = accumulated_filters'
      ]_vars

\* C2: a process call classified REFINE merges the newly extracted filters
\* into the accumulated ones: every list member accumulated before is still
\* there, every scalar keeps its value unless the current query supplies a
\* non-null value for the key, and what the query supplies is there.
C2_RefineMergesIntoExisting ==
    [][ (call'.op = "process" /\ call'.intent = INTENT_REFINE) =>
          /\ \A k \in ListKeys :
                /\ Members(accumulated_filters, k) \subseteq Members(accumulated_filters', k)
                /\ \E s \in NewlyExtracted(call'.query, call'.filter_llm) :
                      Members(s, k) \subseteq Members(accumulated_filters', k)
          /\ \A k \in ScalarKeys :
                IF \E x \in {Get(s, k) : s \in NewlyExtracted(call'.query, call'.filter_llm)} :
                      x # PyNone
                THEN SuppliesScalar(call', k, Get(accumulated_filters', k))
                ELSE Get(accumulated_filters', k) = Get(accumulated_filters, k)
      ]_vars

\* C2 witness: SEARCH set the category, then "but make it under $50" was
\* classified REFINE by the heuristic and both category and price_max are set.
C2_Witness ==
    /\ call.op = "process"
    /\ call.intent = INTENT_REFINE
    /\ call.query = Q_UNDER
    /\ Len(conversation_history) = 2
    /\ Get(accumulated_filters, "category") = PyStr("electronics")
    /\ Get(accumulated_filters, "price_max") = PyNum(500)
    /\ response.filters = accumulated_filters

\* C3: a process call classified CLARIFY or CHITCHAT leaves the accumulated
\* filters as they were, whatever the extractor returned for the query.
C3_ClarifyChitchatKeepFilters ==
    [][ (call'.op = "process" /\ call'.intent \in {INTENT_CLARIFY, INTENT_CHITCHAT})
          => accumulated_filters' = accumulated_filters ]_vars

\* C3 witness: a CLARIFY or CHITCHAT turn whose extraction returned a price
\* bound and a brand that the accumulated filters, set earlier, do not hold.
C3_Witness ==
    /\ call.op = "process"
    /\ call.intent \in {INTENT_CLARIFY, INTENT_CHITCHAT}
    /\ call.filter_llm = F_BRAND_B
    /\ Get(accumulated_filters, "category") = PyStr("electronics")
    /\ Get(accumulated_filters, "price_max") = PyNone
    /\ Members(accumulated_filters, "brand_include") = {}

-----------------------------------------------------------------------------
(* SpecContext: the operations of one ContextManager, in any order *)

MaxAppends == 11

\* the last n entries of a list: l[-n:]
LastN(l, n) == IF Len(l) > n THEN SubSeq(l, Len(l) - n + 1, Len(l)) ELSE l

ContextAddTurn ==
    /\ Len(appended) < MaxAppends
    /\ \E q \in {Q_HELLO, Q_WHAT} : AddTurn(q, PyStr("Here is a laptop"))

ContextUpdateFilters ==
    \E f \in {F_PRICE.v, F_BRAND_A.v} : UpdateFilters(f)

ContextMarkRejected == MarkRejected(PyStr("p1"))

NextContext ==
    \/ ContextAddTurn
    \/ ContextUpdateFilters
    \/ ClearFilters
    \/ ContextMarkRejected
    \/ ResetSession

SpecContext == Init /\ [][NextContext]_vars

\* C4: after any sequence of add_turn calls, interleaved with the other
\* context operations, the history holds at most MAX_CONVERSATION_HISTORY
\* turns, and they are the most recently appended ones in the order in which
\* they were appended.
C4_HistoryIsLastAppended ==
    /\ Len(conversation_history) <= MAX_CONVERSATION_HISTORY
    /\ conversation_history = LastN(appended, MAX_CONVERSATION_HISTORY)

\* C4 witness: more turns were appended than the history keeps, the oldest is
\* gone, and filters and rejected ids were changed in between.
C4_Witness ==
    /\ Len(appended) > MAX_CONVERSATION_HISTORY
    /\ Len(conversation_history) = MAX_CONVERSATION_HISTORY
    /\ appended[1].user = Q_HELLO
    /\ \A i \in DOMAIN conversation_history : conversation_history[i].user = Q_WHAT
    /\ accumulated_filters # EmptyDict
    /\ rejected_product_ids # {}

-----------------------------------------------------------------------------
(* SpecHistory: long sessions of process calls *)

MaxLongTurns == 11

REPLY_NUMERIC_SUMMARY ==
    Reply(PyList(<<Rec(PyStr("p1"), PyStr("Aero 13"), PyStr("light"))>>),
          PyNum(70), PyList(<<>>))

LongReplies ==
    { <<REPLY_P1, REPLY_P1, REPLY_P1>>,
      <<ReplyNoJson, ReplyRaises, ReplyNoJson>>,
      <<ReplyRaises, REPLY_NUMERIC_SUMMARY, REPLY_P1>> }

HistoryProcess ==
    /\ Len(appended) < MaxLongTurns
    /\ \E replies \in LongReplies :
         Process(Q_WHAT, LlmFailed, LlmFailed, PyList(<<P1>>), replies)

NextHistory ==
    \/ HistoryProcess
    \/ ResetSession

SpecHistory == Init /\ [][NextHistory]_vars

\* C5: a process call that returns appends exactly one turn, holding the
\* user query and the summary of that call's recommendation result; a call
\* that raises appends none; and after k returned calls of a fresh session
\* the history holds min(k, MAX_CONVERSATION_HISTORY) turns.
C5_OneTurnPerReturnedCall ==
    /\ [][ call'.op = "process" =>
             IF response'.t = "response"
             THEN /\ response'.summary = call'.llm_response.summary
                  /\ conversation_history' =
                       LastN(Append(conversation_history,
                                    [user |-> call'.query, agent |-> response'.summary]),
                             MAX_CONVERSATION_HISTORY)
                  /\ Len(appended') = Len(appended) + 1
             ELSE /\ conversation_history' = conversation_history
                  /\ appended' = appended
         ]_vars
    /\ [](Len(conversation_history) = Min(Len(appended), MAX_CONVERSATION_HISTORY))

\* C5 witness: the eleventh returned call of a session; the history holds
\* ten turns, the last one with this call's query and summary.
C5_Witness ==
    /\ call.op = "process"
    /\ response.t = "response"
    /\ Len(appended) = MAX_CONVERSATION_HISTORY + 1
    /\ Len(conversation_history) = MAX_CONVERSATION_HISTORY
    /\ conversation_history[MAX_CONVERSATION_HISTORY] =
         [user |-> Q_WHAT, agent |-> FALLBACK_SUMMARY]
    /\ conversation_history[1].agent = PyStr("Here is a laptop")

-----------------------------------------------------------------------------
(* SpecLLM: the operations of one LLMClient *)

MaxRetries == 2

REC_P1 == Rec(PyStr("p1"), PyStr("Aero 13"), PyStr("light"))

REC_P2_NO_NAME == Rec(PyStr("p2"), PyStr(""), Absent)

REC_UNKNOWN == Rec(PyStr("p9"), PyStr("Nine"), PyStr("new"))

REC_UNHASHABLE == Rec(PyList(<<PyStr("p1")>>), PyStr(""), PyStr("odd"))

Q_BLANK == PyText(<<" ">>)

Q_MORE == PyText(<<" ","M","o","r","e","?">>)

\* no entry names a product of the catalog {p1, p2}; one question is blank
REPLY_LONG ==
    Reply(PyList(<<REC_UNKNOWN, PyStr("p1")>>),
          PyStr("Here are laptops"), PyList(<<Q_MORE, Q_BLANK, PyNum(25), Q_MORE>>))

\* six entries and four questions
REPLY_SIX ==
    Reply(PyList(<<REC_P1, REC_UNKNOWN, REC_P1, REC_P2_NO_NAME, REC_P1, REC_P1>>),
          PyNone, PyList(<<Q_MORE, Q_MORE, Q_MORE, Q_MORE>>))

REPLY_WRONG_SHAPE == Reply(PyStr("p1"), PyList(<<>>), PyStr("more?"))

REPLY_UNHASHABLE == Reply(PyList(<<REC_P1, REC_UNHASHABLE>>), PyStr("Odd"), PyList(<<>>))

REPLY_NOT_OBJECT == ReplyJson(PyList(<<REC_P1>>))

LLMReplies ==
    {ReplyRaises, ReplyNoJson, REPLY_NOT_OBJECT, REPLY_LONG, REPLY_SIX}

LLMUpdateProductCatalog ==
    \E products \in {<<>>, <<P2, P1>>} : UpdateProductCatalog(products)

LLMGetRecommendations ==
    \E max_retries \in 0..MaxRetries :
    \E replies \in [1..(max_retries + 1) -> LLMReplies] :
        GetRecommendations(replies, max_retries)

NextLLM ==
    \/ LLMUpdateProductCatalog
    \/ LLMGetRecommendations

SpecLLM == Init /\ [][NextLLM]_vars

RecKeys == {"product_id", "product_name", "reasoning"}

\* the attempt that gets this reply ends in the except branch
AttemptFails(reply) == Raised \in AttemptOutcomes(reply, valid_product_ids, product_lookup)

\* C6: get_recommendations never raises, whatever the model does and whatever
\* the catalog is: it returns at most MAX_RECOMMENDATIONS recommendations,
\* each with a product_id, a product_name and a reasoning, a summary, and at
\* most 3 follow-up questions.
C6_GetRecommendationsTotal ==
    call.op = "get_recommendations" =>
        /\ response.t = "result"
        /\ response.v # Raised
        /\ DOMAIN response.v = {"recommendations", "summary", "follow_up_questions"}
        /\ Len(response.v.recommendations) <= MAX_RECOMMENDATIONS
        /\ \A i \in DOMAIN response.v.recommendations :
              /\ DOMAIN response.v.recommendations[i] = RecKeys
              /\ \A k \in RecKeys : response.v.recommendations[i][k] # Absent
        /\ response.v.summary # Absent
        /\ Len(response.v.follow_up_questions) <= 3

\* C6 witness: with no catalog, a reply of six entries and four questions
\* was cut to five and three.
C6_Witness ==
    /\ call.op = "get_recommendations"
    /\ call.replies[call.invocations] = REPLY_SIX
    /\ valid_product_ids = {}
    /\ Len(response.v.recommendations) = MAX_RECOMMENDATIONS
    /\ Len(response.v.follow_up_questions) = 3

\* C7: one call invokes the model at most max_retries + 1 times, exactly
\* max_retries + 1 times when every attempt raises or yields a text that
\* cannot be parsed, and not again after the first attempt that parses and
\* validates.
C7_BoundedInvocations ==
    call.op = "get_recommendations" =>
        /\ call.invocations \in 1..(call.max_retries + 1)
        /\ (\A i \in DOMAIN call.replies : call.replies[i].t \in {"raises", "nojson"})
              => call.invocations = call.max_retries + 1
        /\ \A i \in DOMAIN call.replies :
              (~AttemptFails(call.replies[i]) /\ \A j \in 1..(i - 1) : AttemptFails(call.replies[j]))
                 => call.invocations = i
        /\ \A j \in 1..(call.invocations - 1) : AttemptFails(call.replies[j])

\* C7 witness: two failed attempts, then one that validates and ends the call.
C7_Witness ==
    /\ call.op = "get_recommendations"
    /\ call.max_retries = 2
    /\ call.replies = <<ReplyRaises, ReplyNoJson, REPLY_LONG>>
    /\ call.invocations = 3
    /\ response.v.summary = PyStr("Here are laptops")

\* C8: when every attempt fails, the result is the hard-coded fallback: one
\* fallback recommendation if the catalog is non-empty and none if it is
\* empty, the generic summary and the three generic questions.
C8_HardCodedFallback ==
    (call.op = "get_recommendations" /\ \A i \in DOMAIN call.replies : AttemptFails(call.replies[i]))
    => /\ response.v.summary = FALLBACK_SUMMARY
       /\ response.v.follow_up_questions = FALLBACK_QUESTIONS
       /\ Len(response.v.follow_up_questions) = 3
       /\ IF valid_product_ids # {}
          THEN /\ Len(response.v.recommendations) = 1
               /\ response.v.recommendations[1].product_id \in valid_product_ids
               /\ response.v.recommendations[1].reasoning =
                    PyStr("Fallback recommendation due to processing error")
          ELSE response.v.recommendations = <<>>

\* C8 witness: max_retries = 1, the model answers "no json here" twice, the
\* catalog is not empty.
C8_Witness ==
    /\ call.op = "get_recommendations"
    /\ call.max_retries = 1
    /\ call.replies = <<ReplyNoJson, ReplyNoJson>>
    /\ valid_product_ids = {PyStr("p1"), PyStr("p2")}
    /\ Len(response.v.recommendations) = 1

\* C9: with a non-empty validation catalog, every recommendation of the
\* result, validated or fallback, has a product_id of the catalog.
C9_IdsFromCatalog ==
    (call.op = "get_recommendations" /\ valid_product_ids # {})
    => \A i \in DOMAIN response.v.recommendations :
          response.v.recommendations[i].product_id \in valid_product_ids

\* C9 witness: the reply names p9, which the catalog does not hold, among
\* valid entries; the result holds the valid ones only.
C9_Witness ==
    /\ call.op = "get_recommendations"
    /\ call.replies[call.invocations] = REPLY_SIX
    /\ valid_product_ids = {PyStr("p1"), PyStr("p2")}
    /\ Len(response.v.recommendations) = 4
    /\ response.v.recommendations[3].product_name = PyStr("Zen 15")

-----------------------------------------------------------------------------
(* SpecCatalog: sessions whose retrievals differ from turn to turn *)

MaxCatalogTurns == 2

REPLY_P2 ==
    Reply(PyList(<<Rec(PyStr("p2"), PyStr("Zen 15"), PyStr("cheap"))>>),
          PyStr("Try this"), PyList(<<>>))

CatalogReplies == {ReplyNoJson, REPLY_P2, REPLY_WRONG_SHAPE, REPLY_UNHASHABLE}

Retrievals == {Raised, PyList(<<>>), PyList(<<P1>>), PyList(<<P2, P1>>)}

CatalogProcess ==
    /\ Len(appended) < MaxCatalogTurns
    /\ \E retrieval \in Retrievals :
       \E replies \in [1..(DEFAULT_MAX_RETRIES + 1) -> CatalogReplies] :
         Process(Q_WHAT, LlmFailed, LlmFailed, retrieval, replies)

CatalogMarkRejected == MarkRejected(PyStr("p1"))

NextCatalog ==
    \/ CatalogProcess
    \/ CatalogMarkRejected
    \/ ResetSession

SpecCatalog == Init /\ [][NextCatalog]_vars

\* C10: the catalog a turn's recommendations are validated against is the
\* catalog retrieved in that turn; when the turn's retrieval returns no
\* product, validation runs with no catalog.
C10_ValidatedAgainstThisTurnsCatalog ==
    (call.op = "process" /\ "llm_response" \in DOMAIN call)
    => /\ valid_product_ids = CatalogIds(call.retrieval.v)
       /\ product_lookup = CatalogLookup(call.retrieval.v)

\* a reply that parses to an object and leaves no recommendation after the
\* validation loop
LeavesNone(reply) ==
    /\ reply.t = "json"
    /\ reply.v.t = "dict"
    /\ LET recs == GetD(reply.v.v, "recommendations", PyList(<<>>))
       IN recs.t = "list" =>
            ValidateRecs(<<>>, recs.v, 1, valid_product_ids, product_lookup) = PyList(<<>>)

\* C11: with a non-empty validation catalog the recommendation result of a
\* turn holds between 1 and MAX_RECOMMENDATIONS recommendations; a reply that
\* parses and leaves none after validation ends the call at that attempt with
\* exactly one synthesized recommendation of a catalog product; and the
\* response process returns then holds at least one recommendation.
C11_AtLeastOneWithCatalog ==
    (call.op = "process" /\ "llm_response" \in DOMAIN call /\ valid_product_ids # {})
    => /\ Len(call.llm_response.recommendations) \in 1..MAX_RECOMMENDATIONS
       /\ \A i \in DOMAIN call.replies :
             LeavesNone(call.replies[i]) =>
                /\ i = Len(call.replies)
                /\ Len(call.llm_response.recommendations) = 1
                /\ call.llm_response.recommendations[1].product_id \in valid_product_ids
                /\ call.llm_response.recommendations[1].reasoning = PyStr("Fallback recommendation")
       /\ response.t = "response" => Len(response.recommendations) >= 1

\* C11 witness: the catalog is {p1}; the first attempt fails, the second reply
\* recommends p2 only, and the result is the one synthesized recommendation
\* of p1 after two invocations.
C11_Witness ==
    /\ call.op = "process"
    /\ call.retrieval = PyList(<<P1>>)
    /\ call.replies = <<ReplyNoJson, REPLY_P2>>
    /\ response.t = "response"
    /\ Len(response.recommendations) = 1
    /\ response.recommendations[1].product_id = PyStr("p1")
    /\ response.recommendations[1].reasoning = PyStr("Fallback recommendation")
    /\ response.summary = PyStr("Try this")

-----------------------------------------------------------------------------
(* SpecSession: process calls interleaved with the context operations *)

MaxSessionTurns == 2

\* p1, p2 and p1 again
REPLY_BOTH ==
    Reply(PyList(<<REC_P1, REC_P2_NO_NAME, REC_P1>>), PyStr("Two laptops"), PyList(<<>>))

SessionProcess ==
    /\ Len(appended) < MaxSessionTurns
    /\ \E q \in {Q_SHOW, Q_UNDER} :
       \E il \in {LlmFailed, IntentOutput(Lower(INTENT_SEARCH), 9)} :
         Process(q, il, LlmFailed, PyList(<<P1, P2>>), <<REPLY_BOTH, REPLY_BOTH, REPLY_BOTH>>)

SessionMarkRejected == \E id \in {PyStr("p1"), PyStr("p2")} : MarkRejected(id)

\* a price_max of 100, or the exclusion of the brand of P1
SessionUpdateFilters ==
    \E new_filters \in {F_PRICE.v, Incoming([brand_exclude |-> PyList(<<PyStr(P1.brand)>>)])} :
        UpdateFilters(new_filters)

NextSession ==
    \/ SessionProcess
    \/ SessionMarkRejected
    \/ SessionUpdateFilters
    \/ ClearFilters
    \/ ResetSession

SpecSession == Init /\ [][NextSession]_vars

\* the entries of a recommendation list whose product_id is not rejected
NotRejected(recommendations) ==
    LET Keep(r) == r.product_id \notin rejected_product_ids
    IN SelectSeq(recommendations, Keep)

\* C12: the list process returns is the validator's list without the entries
\* whose product_id is rejected, in the same order, unless that leaves
\* nothing: then it is the validator's list itself, and so not empty.
C12_RejectedFilteredOrAll ==
    (call.op = "process" /\ response.t = "response")
    => LET pre == call.llm_response.recommendations
       IN /\ response.recommendations =
                IF NotRejected(pre) = <<>> THEN pre ELSE NotRejected(pre)
          /\ pre # <<>> => response.recommendations # <<>>

\* C12 witness: p1 and p2 are both rejected and the reply recommends p1, p2, p1:
\* the three are returned.
C12_Witness ==
    /\ call.op = "process"
    /\ response.t = "response"
    /\ rejected_product_ids = {PyStr("p1"), PyStr("p2")}
    /\ Len(call.llm_response.recommendations) = 3
    /\ response.recommendations = call.llm_response.recommendations

\* C13: no operation but reset removes an id from the rejected set, and
\* mark_rejected puts its id in: between two resets the set only grows.
C13_RejectedOnlyGrows ==
    [][ call'.op # "reset" =>
          /\ rejected_product_ids \subseteq rejected_product_ids'
          /\ call'.op = "mark_rejected" => call'.product_id \in rejected_product_ids'
      ]_vars

\* C13 witness: p1 and p2 were marked, and are still rejected after a process
\* call classified SEARCH that followed a turn of the same session.
C13_Witness ==
    /\ call.op = "process"
    /\ call.intent = INTENT_SEARCH
    /\ Len(conversation_history) = 2
    /\ rejected_product_ids = {PyStr("p1"), PyStr("p2")}

-----------------------------------------------------------------------------
(* Claims about reset and about failures of the collaborators *)

\* The responses (or Raised) a newly created Agent can give to the process
\* call c, the collaborators giving what they gave during c. The history of
\* the new agent is empty, as it is after a reset, so the classifier gives
\* the intent it gave in c.
FreshResponses(c) ==
    IF c.retrieval = Raised
    THEN {Raised}
    ELSE LET valid == CatalogIds(c.retrieval.v)
             lookup == CatalogLookup(c.retrieval.v)
         IN UNION { UNION { {
              LET filtered_recs == FilterRejected(out.result.recommendations, {})
              IN IF filtered_recs = Raised
                 THEN Raised
                 ELSE [t |-> "response",
                       recommendations |-> filtered_recs.v,
                       summary |-> out.result.summary,
                       intent |-> c.intent,
                       filters |-> updated_filters,
                       follow_up_questions |-> out.result.follow_up_questions] :
                out \in get_recommendations(c.replies, DEFAULT_MAX_RETRIES, valid, lookup) } :
              updated_filters \in ContextUpdate(c.intent, EmptyDict, filters) } :
              filters \in extract(c.query, <<>>, EmptyDict, c.filter_llm) }

\* C14: reset empties the history, the accumulated filters and the rejected
\* ids, and the process call that follows a reset gives a response that a
\* newly created Agent gives for the same collaborator outputs.
C14_ResetThenProcessAsFresh ==
    [][ /\ call'.op = "reset" =>
              /\ conversation_history' = <<>>
              /\ accumulated_filters' = EmptyDict
              /\ rejected_product_ids' = {}
        /\ (call.op = "reset" /\ call'.op = "process") => response' \in FreshResponses(call')
      ]_vars

ResponseFields == {"t", "recommendations", "summary", "intent", "filters", "follow_up_questions"}

\* C15: every process call returns a response with recommendations, summary,
\* intent, filters and follow-up questions, whatever the classification, the
\* extraction and the recommendation model did in this turn and before.
C15_ProcessNeverFails ==
    call.op = "process" =>
        /\ response # Raised
        /\ DOMAIN response = ResponseFields

\* C16: a process call whose retriever raises, or returns no product, does not
\* propagate an error and returns a response.
C16_RetrievalFailureNotFatal ==
    (call.op = "process" /\ call.retrieval \in {Raised, PyList(<<>>)})
    => /\ response # Raised
       /\ DOMAIN response = ResponseFields

-----------------------------------------------------------------------------
(* SpecIntent: the intent classifier on the histories of a session *)

MaxIntentTurns == 1

\* IntentClassifier.classify(query, conversation_history) on the history of
\* the session, llm being the outcome of the primary request
Classify(query, llm) ==
    /\ UNCHANGED other_agent
    /\ call' = [op |-> "classify", query |-> query, llm |-> llm]
    /\ response' = [t |-> "intent", v |-> classify(query, conversation_history, llm)]
    /\ UNCHANGED <<conversation_history, accumulated_filters, rejected_product_ids,
                   valid_product_ids, product_lookup, appended>>

Q_HELLO_WHAT == <<"H","e","l","l","o"," ","a","n","d"," ","w","h","a","t","?">>

Q_HOW_AND_WHY == <<"h","o","w"," ","a","n","d"," ","w","h","y">>

Q_HEADPHONES == <<"I"," ","n","e","e","d"," ","w","i","r","e","l","e","s","s"," ","h","e","a","d","p","h","o","n","e","s">>

Q_SANDALS == <<"s","h","o","w"," ","m","e"," ","s","a","n","d","a","l","s">>

Q_SHOW_MORE == <<"S","h","o","w"," ","m","o","r","e","?">>

Q_THANK_YOU == <<"t","h","a","n","k"," ","y","o","u">>

IntentQueries ==
    {Q_HELLO_WHAT, Q_WHAT, Q_HOW_AND_WHY, Q_UNDER, Q_CHEAP, Q_HEADPHONES, Q_SANDALS,
     Q_SHOW, Q_SHOW_MORE, Q_THANK_YOU}

\* confidences times ten: 1.5, -0.5, 0.0, 1.0, 0.9
IntentReplies ==
    {LlmFailed,
     IntentOutput(Lower(INTENT_REFINE), 9),
     IntentOutput(<<"b","a","n","a","n","a">>, 15),
     IntentOutput(INTENT_CHITCHAT, 0 - 5),
     IntentOutput(<<"C","l","a","r","i","f","y">>, 0),
     IntentOutput(INTENT_SEARCH, 10)}

IntentClassify == \E q \in IntentQueries, llm \in IntentReplies : Classify(q, llm)

IntentAddTurn ==
    /\ Len(appended) < MaxIntentTurns
    /\ AddTurn(Q_SHOW, PyStr("Here is a laptop"))

NextIntent ==
    \/ IntentClassify
    \/ IntentAddTurn
    \/ ResetSession

SpecIntent == Init /\ [][NextIntent]_vars

\* the rules of the heuristic, on the query as the code scans it
HasGreeting(query) == \E g \in greetings : Contains(Lower(query), g)

HasQuestion(query) ==
    (\E cw \in clarify_words : Contains(Lower(query), cw)) /\ Contains(query, <<"?">>)

HasRefinement(query) == \E rw \in refine_words : Contains(Lower(query), rw)

\* C17: when the primary classification fails the result is CHITCHAT 0.7 if
\* the query contains a greeting, else CLARIFY 0.6 if it contains a question
\* word and a question mark, else REFINE 0.6 if it contains a refinement word
\* and the history is not empty, else SEARCH 0.5; a greeting that is also a
\* question is CHITCHAT, and REFINE is not returned on an empty history.
C17_HeuristicRuleOrder ==
    (call.op = "classify" /\ call.llm = LlmFailed)
    => /\ response.v =
            IF HasGreeting(call.query)
            THEN [intent |-> INTENT_CHITCHAT, confidence |-> 7]
            ELSE IF HasQuestion(call.query)
            THEN [intent |-> INTENT_CLARIFY, confidence |-> 6]
            ELSE IF HasRefinement(call.query) /\ Len(conversation_history) > 0
            THEN [intent |-> INTENT_REFINE, confidence |-> 6]
            ELSE [intent |-> INTENT_SEARCH, confidence |-> 5]
       /\ (HasGreeting(call.query) /\ HasQuestion(call.query))
             => response.v.intent = INTENT_CHITCHAT
       /\ conversation_history = <<>> => response.v.intent # INTENT_REFINE

\* C17 witness: "Hello and what?" with a turn in the history, to which the
\* three rules apply, is CHITCHAT with confidence 0.7.
C17_Witness ==
    /\ call.op = "classify"
    /\ call.llm = LlmFailed
    /\ call.query = Q_HELLO_WHAT
    /\ Len(conversation_history) = 1
    /\ response.v = [intent |-> INTENT_CHITCHAT, confidence |-> 7]

IsWordChar(c) == c \in Range(LowerChars) \cup Range(UpperChars) \cup Range(Digits)

\* w occurs in s as a word of its own
HasWord(s, w) ==
    \E i \in 1..(Len(s) - Len(w) + 1) :
        /\ StartsAt(s, i, w)
        /\ i = 1 \/ ~IsWordChar(s[i - 1])
        /\ i + Len(w) > Len(s) \/ ~IsWordChar(s[i + Len(w)])

\* C18: the heuristic answers CHITCHAT only for a query in which a greeting
\* occurs as a word of its own, and likewise CLARIFY and REFINE only for a
\* question word or a refinement word that occurs as a word.
C18_HeuristicMatchesWords ==
    (call.op = "classify" /\ call.llm = LlmFailed)
    => /\ response.v.intent = INTENT_CHITCHAT
             => \E g \in greetings : HasWord(Lower(call.query), g)
       /\ response.v.intent = INTENT_CLARIFY
             => \E cw \in clarify_words : HasWord(Lower(call.query), cw)
       /\ response.v.intent = INTENT_REFINE
             => \E rw \in refine_words : HasWord(Lower(call.query), rw)

\* clamping to [0.0, 1.0], confidences times ten
Clamped(c) == IF c < 0 THEN 0 ELSE IF c > 10 THEN 10 ELSE c

\* C19 after amendment: every result of classify has an intent of
\* INTENT_CLASSES and a confidence within [0.0, 1.0]; on the primary path the
\* intent is the upper-cased parsed value if that is in INTENT_CLASSES and
\* SEARCH otherwise, and the confidence is the parsed one clamped.
C19_IntentAndConfidenceInRange ==
    call.op = "classify" =>
        /\ response.v.intent \in INTENT_CLASSES
        /\ response.v.confidence \in 0..10
        /\ call.llm # LlmFailed =>
              /\ response.v.intent =
                    IF Upper(call.llm.v.intent) \in INTENT_CLASSES
                    THEN Upper(call.llm.v.intent) ELSE INTENT_SEARCH
              /\ response.v.confidence = Clamped(call.llm.v.confidence)

\* C19 witness: the primary path gave "banana" with confidence 1.5; the
\* result is SEARCH with confidence 1.0.
C19_Witness ==
    /\ call.op = "classify"
    /\ call.llm # LlmFailed
    /\ call.llm.v.confidence = 15
    /\ Upper(call.llm.v.intent) \notin INTENT_CLASSES
    /\ response.v = [intent |-> INTENT_SEARCH, confidence |-> 10]

\* C19 as stated: a parsed intent that is not one of the four members of the
\* enumeration is coerced to SEARCH, and the confidence is clamped.
C19_OutsideEnumerationIsSearch ==
    (call.op = "classify" /\ call.llm # LlmFailed)
    => /\ response.v.intent \in INTENT_CLASSES
       /\ response.v.confidence = Clamped(call.llm.v.confidence)
       /\ call.llm.v.intent \notin INTENT_CLASSES => response.v.intent = INTENT_SEARCH

\* C20: when the primary request fails (the call raises or its output does
\* not parse), classify returns what the heuristic gives for the same query
\* and history.
C20_FailureGivesHeuristic ==
    (call.op = "classify" /\ call.llm = LlmFailed)
    => /\ response.t = "intent"
       /\ response.v = _fallback_classify(call.query, conversation_history)

\* C20 witness: the request failed for "but make it under $50" on a history
\* of one turn, and the result is the heuristic's REFINE with confidence 0.6.
C20_Witness ==
    /\ call.op = "classify"
    /\ call.llm = LlmFailed
    /\ call.query = Q_UNDER
    /\ Len(conversation_history) = 1
    /\ response.v = [intent |-> INTENT_REFINE, confidence |-> 6]

-----------------------------------------------------------------------------
(* agent/rag_retriever.py *)

\* One entry of the list `filters` of _build_chroma_filters: {field: value}
\* is the predicate (field, "$eq", value), {field: {op: num}} is (field, op, num).
Pred(field, op, value) == [field |-> field, op |-> op, value |-> value]

\* A dict of operators of raw_filters, {"$gte": 3, "$lte": 5}, as the
\* sequence of its items [op |-> ..., num |-> ...]
PyOps(items) == [t |-> "ops", v |-> items]

\* op in value
HasOp(value, op) == \E i \in DOMAIN value.v : value.v[i].op = op

\* value[op]
OpNum(value, op) == value.v[CHOOSE i \in DOMAIN value.v : value.v[i].op = op].num

\* x.lower() of a str the translator is given (a PyText); a value that is no
\* str has no such method
LowerOf(x) == IF x.t = "text" THEN PyText(Lower(x.v)) ELSE Raised

\* "$gte" in value raises for an age that is a number
RawItemRaises(key, value) == key = "age" /\ value.t = "num"

\* what one item of raw_filters appends to `filters`
RawItemFilters(key, value) ==
    IF value = PyNone
    THEN <<>>
    ELSE IF key = "age"
    THEN IF value.t # "ops"
         THEN <<>>
         ELSE IF HasOp(value, "$gte") /\ HasOp(value, "$lte")
         THEN <<Pred("age_max", "$lte", OpNum(value, "$lte")),
                Pred("age_min", "$gte", OpNum(value, "$gte"))>>
         ELSE IF HasOp(value, "$eq")
         THEN <<Pred("age_min", "$lte", OpNum(value, "$eq")),
                Pred("age_max", "$gte", OpNum(value, "$eq"))>>
         ELSE IF HasOp(value, "$lt")
         THEN <<Pred("age_min", "$lt", OpNum(value, "$lt"))>>
         ELSE IF HasOp(value, "$gt")
         THEN <<Pred("age_max", "$gt", OpNum(value, "$gt"))>>
         ELSE <<>>
    ELSE IF value.t = "ops"
    THEN [i \in DOMAIN value.v |-> Pred(key, value.v[i].op, value.v[i].num)]
    ELSE IF value.t = "text"
    THEN <<Pred(key, "$eq", PyText(Lower(Strip(value.v))))>>
    ELSE <<Pred(key, "$eq", value)>>

\* the first loop of _build_chroma_filters, items i.. of raw_filters: the
\* list of what they append, or Raised
RECURSIVE RawFilters(_, _)
RawFilters(raw_filters, i) ==
    IF i > Len(raw_filters)
    THEN PyList(<<>>)
    ELSE LET this == RawItemRaises(raw_filters[i].key, raw_filters[i].value)
             rest == RawFilters(raw_filters, i + 1)
         IN IF this \/ rest = Raised
            THEN Raised
            ELSE PyList(RawItemFilters(raw_filters[i].key, raw_filters[i].value) \o rest.v)

\* what the agent filters append to `filters`: price, category, first brand
\* and rating; brand_exclude and features append nothing
AgentFilters(agent_filters) ==
    LET Has(k) == Truthy(Get(agent_filters, k))
    IN  (IF Has("price_min")
         THEN <<Pred("price", "$gte", agent_filters["price_min"])>> ELSE <<>>)
     \o (IF Has("price_max")
         THEN <<Pred("price", "$lte", agent_filters["price_max"])>> ELSE <<>>)
     \o (IF Has("category")
         THEN <<Pred("category", "$eq", LowerOf(agent_filters["category"]))>> ELSE <<>>)
     \o (IF Has("brand_include")
         THEN <<Pred("brand", "$eq", LowerOf(agent_filters["brand_include"].v[1]))>> ELSE <<>>)
     \o (IF Has("rating_min")
         THEN <<Pred("rating", "$gte", agent_filters["rating_min"])>> ELSE <<>>)

WhereNone == [t |-> "none"]

WherePred(p) == [t |-> "pred", v |-> p]

WhereAnd(ps) == [t |-> "and", v |-> ps]

\* the final where clause: None, the only predicate, or {"$and": filters}
Where(filters) ==
    IF filters = <<>> THEN WhereNone
    ELSE IF Len(filters) = 1 THEN WherePred(filters[1])
    ELSE WhereAnd(filters)

\* RAGRetriever._build_chroma_filters(raw_filters, agent_filters): the where
\* clause, or Raised
_build_chroma_filters(raw_filters, agent_filters) ==
    LET raw == RawFilters(raw_filters, 1)
        agent == AgentFilters(agent_filters)
        bad == \E i \in DOMAIN agent : agent[i].value = Raised
    IN IF raw = Raised \/ bad THEN Raised ELSE Where(raw.v \o agent)

\* RAGRetriever._build_chroma_filters on the accumulated filters, as
\* retrieve calls it with the attributes extracted from the query
BuildChromaFilters(raw_filters) ==
    /\ UNCHANGED other_agent
    /\ call' = [op |-> "_build_chroma_filters", raw_filters |-> raw_filters,
                agent_filters |-> accumulated_filters]
    /\ response' = [t |-> "where", v |-> _build_chroma_filters(raw_filters, accumulated_filters)]
    /\ UNCHANGED <<conversation_history, accumulated_filters, rejected_product_ids,
                   valid_product_ids, product_lookup, appended>>

-----------------------------------------------------------------------------
(* SpecFilters: merging, translating and extracting filter sets *)

SONY == PyText(<<"s","o","n","y">>)

SONY_CAPITAL == PyText(<<"S","o","n","y">>)

BOSE == PyText(<<"b","o","s","e">>)

ACME == PyText(<<"a","c","m","e">>)

\* prices times ten: 100, 50, 0 and 10; the rating 4.0
MergeInputs ==
    {F_NONE.v,
     F_PRICE.v,
     FilterOutput([price_max |-> PyNum(500)]).v,
     Incoming([price_max |-> PyNum(0), category |-> PyText(<<"A","u","d","i","o">>)]),
     Incoming([price_min |-> PyNum(100), rating_min |-> PyNum(40), price_max |-> PyNone]),
     Incoming([brand_include |-> PyList(<<SONY>>)]),
     Incoming([brand_include |-> PyList(<<SONY_CAPITAL, BOSE>>),
               brand_exclude |-> PyList(<<ACME>>)]),
     Incoming([features |-> PyList(<<PyText(<<"w","i","f","i">>)>>),
               brand_include |-> PyList(<<>>)])}

\* the attributes retrieve extracts from the query: none (the prompt is not
\* configured), a category, an age range with a null colour
RawFilterInputs ==
    {<<>>,
     <<[key |-> "category", value |-> PyText(<<" ","T","o","y","s">>)]>>,
     <<[key |-> "age", value |-> PyOps(<<[op |-> "$gte", num |-> PyNum(30)],
                                          [op |-> "$lte", num |-> PyNum(50)]>>)],
       [key |-> "color", value |-> PyNone]>>}

\* FilterExtractor._merge_filters(existing, new) on the accumulated filters
MergeFilters(new) ==
    \E merged \in _merge_filters(accumulated_filters, new) :
        /\ UNCHANGED other_agent
        /\ call' = [op |-> "_merge_filters", existing |-> accumulated_filters, new |-> new]
        /\ response' = [t |-> "filters", v |-> merged]
        /\ UNCHANGED <<conversation_history, accumulated_filters, rejected_product_ids,
                       valid_product_ids, product_lookup, appended>>

FiltersUpdateFilters == \E new \in MergeInputs : UpdateFilters(new)

FiltersMergeFilters == \E new \in MergeInputs : MergeFilters(new)

Q_BEST_BUDGET == <<"b","e","s","t"," ","b","u","d","g","e","t"," ","p","i","c","k">>

Q_AFFORDABLE_CHEAP == <<"A","f","f","o","r","d","a","b","l","e",","," ","e","v","e","n"," ","c","h","e","a","p">>

Q_FOUR_STAR == <<"4"," ","s","t","a","r"," ","h","e","a","d","p","h","o","n","e","s">>

ExtractQueries == {Q_CHEAP, Q_UNDER, Q_BEST_BUDGET, Q_AFFORDABLE_CHEAP, Q_FOUR_STAR}

\* the outcomes of the primary extraction: a failure, no field, a price_max
\* of 100, a price_max of 0 with a rating and a brand, a price_min of 200
\* with a category
ExtractReplies ==
    {LlmFailed,
     F_NONE,
     F_PRICE,
     FilterOutput([price_max |-> PyNum(0), rating_min |-> PyNum(30),
                   brand_include |-> PyList(<<BOSE>>)]),
     FilterOutput([price_min |-> PyNum(2000), category |-> PyText(<<"t","v">>)])}

\* FilterExtractor.extract(query, conversation_history, existing_filters) on
\* the history and filters of the session, llm being the outcome of the
\* primary extraction
Extract(query, llm) ==
    \E result \in extract(query, conversation_history, accumulated_filters, llm) :
        /\ UNCHANGED other_agent
        /\ call' = [op |-> "extract", query |-> query, llm |-> llm,
                    existing |-> accumulated_filters]
        /\ response' = [t |-> "filters", v |-> result]
        /\ UNCHANGED <<conversation_history, accumulated_filters, rejected_product_ids,
                       valid_product_ids, product_lookup, appended>>

FiltersBuildChromaFilters == \E raw_filters \in RawFilterInputs : BuildChromaFilters(raw_filters)

NextFilters ==
    \/ FiltersUpdateFilters
    \/ FiltersMergeFilters
    \/ FiltersBuildChromaFilters
    \/ ClearFilters

SpecFilters == Init /\ [][NextFilters]_vars

-----------------------------------------------------------------------------
(* SpecExtract: the filter extractor on the filters of a session *)

ExtractExtract == \E q \in ExtractQueries, llm \in ExtractReplies : Extract(q, llm)

\* a price_max of 100; a price_min of 10 with a rating of 4.0; two brands
ExtractUpdateFilters ==
    \E new \in {F_PRICE.v,
                Incoming([price_min |-> PyNum(100), rating_min |-> PyNum(40)]),
                Incoming([brand_include |-> PyList(<<SONY, BOSE>>)])} :
        UpdateFilters(new)

NextExtract ==
    \/ ExtractExtract
    \/ ExtractUpdateFilters
    \/ ClearFilters

SpecExtract == Init /\ [][NextExtract]_vars

-----------------------------------------------------------------------------
(* SpecAccessors: callers that change what the read accessors returned *)

MaxAccessorTurns == 2

\* the longest list a caller makes by appending to a returned list
MaxListLen == 3

\* f = get_filters(); f[key] = value. The dict returned is a copy: the
\* assignment changes the copy only.
GetFiltersThenSet(key, value) ==
    /\ UNCHANGED other_agent
    /\ call' = [op |-> "get_filters", then |-> "set", key |-> key, value |-> value]
    /\ response' = [t |-> "filters", v |-> Put(accumulated_filters, key, value)]
    /\ UNCHANGED <<conversation_history, accumulated_filters, rejected_product_ids,
                   valid_product_ids, product_lookup, appended>>

\* f = get_filters(); f[key].append(value). dict.copy() is shallow: f[key] is
\* the list object that accumulated_filters[key] is.
GetFiltersThenAppend(key, value) ==
    /\ Get(accumulated_filters, key).t = "list"
    /\ Len(accumulated_filters[key].v) < MaxListLen
    /\ LET shared == PyList(Append(accumulated_filters[key].v, value))
       IN /\ accumulated_filters' = Put(accumulated_filters, key, shared)
          /\ response' = [t |-> "filters", v |-> Put(accumulated_filters, key, shared)]
    /\ UNCHANGED other_agent
    /\ call' = [op |-> "get_filters", then |-> "append", key |-> key, value |-> value]
    /\ UNCHANGED <<conversation_history, rejected_product_ids,
                   valid_product_ids, product_lookup, appended>>

\* r = process(...); r.filters[key].append(value), before any other call on
\* the agent. r.filters is the dict get_filters() returned during the call
\* (core.py, updated_filters), so r.filters[key] is the session's list.
ResponseFiltersThenAppend(key, value) ==
    /\ call.op = "process"
    /\ response # Raised
    /\ GetFiltersThenAppend(key, value)

\* h = get_history(); h.append(turn). The list returned is a copy.
GetHistoryThenAppend(turn) ==
    /\ UNCHANGED other_agent
    /\ call' = [op |-> "get_history", then |-> "append", turn |-> turn]
    /\ response' = [t |-> "history", v |-> Append(conversation_history, turn)]
    /\ UNCHANGED <<conversation_history, accumulated_filters, rejected_product_ids,
                   valid_product_ids, product_lookup, appended>>

\* h = get_history(); h[i - 1]["user"] = user_query. list.copy() is shallow:
\* the turn is the dict object that the history holds.
GetHistoryThenSetTurn(i, user_query) ==
    /\ i \in DOMAIN conversation_history
    /\ LET shared == [conversation_history EXCEPT ![i].user = user_query]
       IN /\ conversation_history' = shared
          /\ response' = [t |-> "history", v |-> shared]
    /\ UNCHANGED other_agent
    /\ call' = [op |-> "get_history", then |-> "set_turn", index |-> i, user |-> user_query]
    /\ UNCHANGED <<accumulated_filters, rejected_product_ids,
                   valid_product_ids, product_lookup, appended>>

\* s = get_rejected_ids(); s.add(product_id). The set returned is a copy and
\* its members are immutable.
GetRejectedIdsThenAdd(product_id) ==
    /\ UNCHANGED other_agent
    /\ call' = [op |-> "get_rejected_ids", then |-> "add", product_id |-> product_id]
    /\ response' = [t |-> "ids", v |-> rejected_product_ids \cup {product_id}]
    /\ UNCHANGED <<conversation_history, accumulated_filters, rejected_product_ids,
                   valid_product_ids, product_lookup, appended>>

AccessorProcess ==
    /\ Len(appended) < MaxAccessorTurns
    /\ Process(Q_SHOW, IntentOutput(INTENT_SEARCH, 9), F_BRAND_A, PyList(<<P1>>),
               <<REPLY_P1, REPLY_P1, REPLY_P1>>)

AccessorUpdateFilters == UpdateFilters(F_BRAND_B.v)

AccessorMarkRejected == MarkRejected(PyStr("p2"))

AccessorGetFilters ==
    \/ GetFiltersThenSet("price_max", PyNum(10))
    \/ GetFiltersThenAppend("brand_include", PyStr("acme"))
    \/ ResponseFiltersThenAppend("brand_include", PyStr("zeta"))

AccessorGetHistory ==
    \/ GetHistoryThenAppend([user |-> Q_WHAT, agent |-> PyStr("?")])
    \/ \E i \in 1..MaxAccessorTurns : GetHistoryThenSetTurn(i, Q_HELLO)

AccessorGetRejectedIds == GetRejectedIdsThenAdd(PyStr("p1"))

NextAccessors ==
    \/ AccessorProcess
    \/ AccessorUpdateFilters
    \/ AccessorMarkRejected
    \/ AccessorGetFilters
    \/ AccessorGetHistory
    \/ AccessorGetRejectedIds
    \/ ResetSession

SpecAccessors == Init /\ [][NextAccessors]_vars

-----------------------------------------------------------------------------
(* Claims on SpecFilters, SpecSession, SpecExtract and SpecAccessors *)

\* the scalar keys of the result follow the override rule
ScalarsOverride(existing, new, result) ==
    \A k \in ScalarKeys :
        result[k] = IF Get(new, k) # PyNone THEN new[k] ELSE existing[k]

\* C21: in update_filters and in _merge_filters, a non-null incoming value of
\* a scalar key (price_min, price_max, category, rating_min) replaces the
\* existing value of that key, and a null or absent one leaves it unchanged.
C21_ScalarsOverride ==
    [][/\ call'.op = "update_filters"
          => ScalarsOverride(accumulated_filters, call'.new_filters, accumulated_filters')
       /\ call'.op = "_merge_filters"
          => ScalarsOverride(call'.existing, call'.new, response'.v)]_vars

\* an existing price_max of 100 followed by an incoming price_max of 50 gives 50
C21_Witness ==
    /\ call.op = "update_filters"
    /\ call.new_filters = FilterOutput([price_max |-> PyNum(500)]).v
    /\ accumulated_filters["price_max"] = PyNum(500)
    /\ accumulated_filters["price_min"] = PyNum(100)

\* the list keys of the result are the duplicate-free union
ListsAreUnion(existing, new, result) ==
    \A k \in ListKeys :
        /\ Members(result, k) = Members(existing, k) \cup Members(new, k)
        /\ Get(result, k) # PyNone
           => Len(result[k].v) = Cardinality(Range(result[k].v))

\* C22: each set-valued key (brand_include, brand_exclude, features) of the
\* result of update_filters holds exactly the members of the existing and of
\* the incoming value of that key, each once; so an update_filters call
\* removes no member.
C22_ListsAreUnion ==
    [][call'.op = "update_filters"
       => /\ ListsAreUnion(accumulated_filters, call'.new_filters, accumulated_filters')
          /\ \A k \in ListKeys :
                Members(accumulated_filters, k) \subseteq Members(accumulated_filters', k)]_vars

\* brands merged into a session that already holds one of them
C22_Witness ==
    /\ call.op = "update_filters"
    /\ Members(call.new_filters, "brand_include") = {SONY}
    /\ Members(accumulated_filters, "brand_include") = {SONY, SONY_CAPITAL, BOSE}
    /\ Members(accumulated_filters, "brand_exclude") = {ACME}

\* two filter dicts are equal, the list keys compared as sets
SameFilters(a, b) ==
    /\ \A k \in ScalarKeys : a[k] = b[k]
    /\ \A k \in ListKeys : Members(a, k) = Members(b, k)
    /\ Keys(a) = Keys(b)

\* C23: update_filters(B) applied right after update_filters(B) leaves the
\* accumulated filters as they are (set-valued keys compared as sets).
C23_MergeIdempotent ==
    [][(/\ call.op = "update_filters"
        /\ call'.op = "update_filters"
        /\ call'.new_filters = call.new_filters)
       => SameFilters(accumulated_filters', accumulated_filters)]_vars

\* the same brands and excluded brand merged twice in a row
C23_Witness ==
    /\ call.op = "update_filters"
    /\ Members(call.new_filters, "brand_include") = {SONY_CAPITAL, BOSE}
    /\ Members(accumulated_filters, "brand_include") = {SONY_CAPITAL, BOSE, SONY}

\* the predicates of a where clause
Operands(where) ==
    CASE where.t = "none" -> <<>>
      [] where.t = "pred" -> <<where.v>>
      [] where.t = "and"  -> where.v

\* the fields of a filter dict that hold a constraint
Constrained(filters) ==
    {k \in ScalarKeys : Get(filters, k) # PyNone}
    \cup {k \in ListKeys : Members(filters, k) # {}}

\* the predicates of a where clause that stand for the field k of the filters
PredicatesOf(where, filters, k) ==
    LET ops == Operands(where)
        Is(i, field, op) == ops[i].field = field /\ ops[i].op = op
    IN {i \in DOMAIN ops :
          CASE k = "price_min"  -> Is(i, "price", "$gte") /\ ops[i].value = filters[k]
            [] k = "price_max"  -> Is(i, "price", "$lte") /\ ops[i].value = filters[k]
            [] k = "rating_min" -> Is(i, "rating", "$gte") /\ ops[i].value = filters[k]
            [] k = "category"   -> Is(i, "category", "$eq")
            [] k = "brand_include" -> Is(i, "brand", "$eq")
            [] k = "brand_exclude" -> Is(i, "brand", "$ne") \/ Is(i, "brand", "$nin")
            [] k = "features"   -> ops[i].field = "features"}

\* C24: the translator, given the accumulated filters and no other
\* attribute, returns None when no field of the filters holds a constraint
\* and otherwise a conjunction with exactly one predicate for each field that
\* holds one; it never returns a conjunction without operands.
C24_NoFilterOrOnePredicatePerField ==
    (call.op = "_build_chroma_filters" /\ call.raw_filters = <<>>)
    => /\ Constrained(call.agent_filters) = {} => response.v = WhereNone
       /\ \A k \in Constrained(call.agent_filters) :
             Cardinality(PredicatesOf(response.v, call.agent_filters, k)) = 1
       /\ Len(Operands(response.v)) = Cardinality(Constrained(call.agent_filters))
       /\ response.v.t = "and" => response.v.v # <<>>

\* C25: the translator emits the predicate price >= price_min exactly when
\* price_min is not null, price <= price_max exactly when price_max is not
\* null and rating >= rating_min exactly when rating_min is not null, each
\* independently of the others.
C25_RangePredicateIffSet ==
    (call.op = "_build_chroma_filters" /\ call.raw_filters = <<>>)
    => \A k \in {"price_min", "price_max", "rating_min"} :
          Cardinality(PredicatesOf(response.v, call.agent_filters, k))
            = IF Get(call.agent_filters, k) # PyNone THEN 1 ELSE 0

\* the brand predicates the translator emits for the filters
BrandPredicate(filters) ==
    LET where == _build_chroma_filters(<<>>, filters)
    IN {Operands(where)[i] : i \in PredicatesOf(where, filters, "brand_include")}

\* C26: the brand predicate is a function of the sequence of merges: every
\* outcome the same update_filters call can have from the same accumulated
\* filters gives the same brand equality predicate.
C26_BrandPredicateDeterministic ==
    [][call'.op = "update_filters"
       => \A other \in update_filters(accumulated_filters, call'.new_filters) :
             BrandPredicate(other) = BrandPredicate(accumulated_filters')]_vars

\* the products of the catalog retrieved in this call that a recommendation
\* references
Referenced(rec, retrieved_products) ==
    {retrieved_products[i] : i \in {j \in DOMAIN retrieved_products :
                                      PyStr(retrieved_products[j].id) = rec.product_id}}

\* C27: no recommendation returned by process references a product of the
\* catalog retrieved in this call whose brand is in the accumulated
\* brand_exclude.
C27_ExcludedBrandNotRecommended ==
    (call.op = "process" /\ response # Raised /\ call.retrieval # Raised)
    => \A i \in DOMAIN response.recommendations :
         \A p \in Referenced(response.recommendations[i], call.retrieval.v) :
            PyStr(p.brand) \notin Members(response.filters, "brand_exclude")

\* the values the lexicon holds for the key k under a term of the query
LexiconValues(query, k) ==
    {PyNum(VAGUE_TERMS[i].value) :
        i \in {j \in DOMAIN VAGUE_TERMS :
                 VAGUE_TERMS[j].key = k /\ Contains(Lower(query), VAGUE_TERMS[j].term)}}

\* C28: in the result of extract, a scalar key for which the primary
\* extraction gave a non-null value holds that value, whichever vague terms
\* the query contains; a scalar key it left null holds the existing value or
\* a value of the lexicon for a term of the query; the list keys hold the
\* existing and the extracted members only.
C28_LexiconOnlyForUnsetScalars ==
    (call.op = "extract" /\ call.llm.t = "parsed")
    => /\ \A k \in ScalarKeys :
            IF call.llm.v[k] # PyNone
            THEN response.v[k] = call.llm.v[k]
            ELSE response.v[k] \in {call.existing[k]} \cup LexiconValues(call.query, k)
       /\ \A k \in ListKeys :
            Members(response.v, k) = Members(call.existing, k) \cup Members(call.llm.v, k)

\* "I want something cheap" with an extracted price_max of 100, and with an
\* extracted price_max of 0
C28_Witness ==
    /\ call.op = "extract"
    /\ call.query \in {Q_CHEAP, Q_AFFORDABLE_CHEAP}
    /\ call.llm.t = "parsed"
    /\ call.llm.v["price_max"] \in {PyNum(1000), PyNum(0)}
    /\ response.v["price_max"] = call.llm.v["price_max"]

\* C29: when the primary extraction fails, every scalar key that a vague
\* term of the query maps, and that the existing filters and the price and
\* rating patterns leave unset, holds a value of the lexicon in the result;
\* "I want something cheap" without existing filters gives price_max = 50.
C29_LexiconOnFailure ==
    (call.op = "extract" /\ call.llm = LlmFailed)
    => /\ \A k \in ScalarKeys :
            (LexiconValues(call.query, k) # {}
             /\ Get(_regex_extract(call.query, call.existing), k) = PyNone)
            => response.v[k] \in LexiconValues(call.query, k)
       /\ (call.query = Q_CHEAP /\ call.existing = EmptyDict)
            => response.v["price_max"] = PyNum(500)

\* C30: nothing a caller does to a value returned by get_history,
\* get_filters or get_rejected_ids (or to the filters of a returned
\* response) changes the history, the accumulated filters or the rejected
\* ids of the session.
C30_AccessorsReturnDefensiveCopies ==
    [][call'.op \in {"get_history", "get_filters", "get_rejected_ids"}
       => UNCHANGED <<conversation_history, accumulated_filters, rejected_product_ids>>]_vars

-----------------------------------------------------------------------------
(* SpecAgents: two Agent instances, one per conversation, whose calls      *)
(* interleave                                                               *)

MaxAgentTurns == 1

\* the state of the instance the calls are made on
ThisAgent ==
    [conversation_history |-> conversation_history,
     accumulated_filters |-> accumulated_filters,
     rejected_product_ids |-> rejected_product_ids,
     valid_product_ids |-> valid_product_ids,
     product_lookup |-> product_lookup,
     appended |-> appended]

\* The caller turns to the other instance: the calls that follow are made on
\* it. No code of the agent runs.
SwitchAgent ==
    /\ conversation_history' = other_agent.conversation_history
    /\ accumulated_filters' = other_agent.accumulated_filters
    /\ rejected_product_ids' = other_agent.rejected_product_ids
    /\ valid_product_ids' = other_agent.valid_product_ids
    /\ product_lookup' = other_agent.product_lookup
    /\ appended' = other_agent.appended
    /\ other_agent' = ThisAgent
    /\ call' = [op |-> "switch_agent"]
    /\ response' = NoResponse

AgentsProcess ==
    /\ Len(appended) < MaxAgentTurns
    /\ \E q \in {Q_SHOW, Q_UNDER}, retrieval \in {Raised, PyList(<<P1>>), PyList(<<P2, P1>>)} :
         Process(q, IntentOutput(INTENT_SEARCH, 9), LlmFailed, retrieval,
                 <<REPLY_P1, REPLY_P1, REPLY_P1>>)

AgentsMarkRejected == \E id \in {PyStr("p1"), PyStr("p2")} : MarkRejected(id)

NextAgents ==
    \/ AgentsProcess
    \/ AgentsMarkRejected
    \/ ResetSession
    \/ SwitchAgent

SpecAgents == Init /\ [][NextAgents]_vars

\* C32: a process, mark_rejected or reset call on one Agent instance leaves
\* the history, accumulated filters, rejected ids and validation catalog of
\* the other instance as they are, in every interleaving of the calls on the
\* two instances; turning to the other instance changes the state of neither.
C32_SessionsShareNoState ==
    [][IF call'.op = "switch_agent"
       THEN other_agent' = ThisAgent
       ELSE other_agent' = other_agent]_vars

\* both instances hold a turn; their filters, rejected ids and catalogs differ
C32_Witness ==
    /\ call.op = "process"
    /\ Len(conversation_history) = 1
    /\ Len(other_agent.conversation_history) = 1
    /\ accumulated_filters # other_agent.accumulated_filters
    /\ rejected_product_ids = {}
    /\ other_agent.rejected_product_ids = {PyStr("p1")}
    /\ valid_product_ids # other_agent.valid_product_ids

-----------------------------------------------------------------------------
(* Claims on the validated result *)

\* the first n non-blank entries of qs[i..], each stringified and trimmed
RECURSIVE FirstNonBlank(_, _, _)
FirstNonBlank(qs, i, n) ==
    IF i > Len(qs) \/ n = 0
    THEN <<>>
    ELSE IF Truthy(qs[i]) /\ Strip(Str(qs[i])) # <<>>
         THEN <<PyText(Strip(Str(qs[i])))>> \o FirstNonBlank(qs, i + 1, n - 1)
         ELSE FirstNonBlank(qs, i + 1, n)

\* C31: the follow_up_questions of a validated result are the first 3
\* non-blank entries of the model's list, stringified and trimmed, a blank
\* entry taking none of the 3 places; a value that is no list gives the empty
\* list.
C31_FirstThreeNonBlankQuestions ==
    (call.op = "get_recommendations" /\ ~AttemptFails(call.replies[call.invocations]))
    => LET fu == GetD(call.replies[call.invocations].v.v, "follow_up_questions", PyList(<<>>))
       IN response.v.follow_up_questions =
            IF fu.t = "list" THEN FirstNonBlank(fu.v, 1, 3) ELSE <<>>

IsString(x) == x.t \in {"str", "text"}

\* C33: the summary of the result of get_recommendations, the summary of the
\* response of process and the agent text of the turn that process appended
\* are strings, whatever the "summary" field of the model's reply holds.
C33_SummaryIsString ==
    /\ call.op = "get_recommendations" => IsString(response.v.summary)
    /\ (call.op = "process" /\ response # Raised)
       => /\ IsString(response.summary)
          /\ IsString(conversation_history[Len(conversation_history)].agent)

\* the positions among the first 5 of recs whose entry passes validation
ValidPositions(recs) ==
    {i \in 1..Min(Len(recs), 5) :
        /\ recs[i].t = "dict"
        /\ \/ valid_product_ids = {}
           \/ GetD(recs[i].v, "product_id", PyStr("")) \in valid_product_ids}

\* the members of a set of numbers in increasing order
RECURSIVE Ascending(_)
Ascending(S) == IF S = {} THEN <<>> ELSE <<MinOf(S)>> \o Ascending(S \ {MinOf(S)})

\* C34 after amendment: the recommendations of a validated result are built
\* from the valid entries among the first 5 of the model's list, in their order: an entry
\* that fails validation is not replaced by a later one and no entry at
\* position 6 or later is used. (When no entry among the first 5 is valid the
\* result holds no entry of the list: it is empty or the one recommendation
\* built from the catalog.)
C34_ValidAmongFirstFive ==
    (/\ call.op = "get_recommendations"
     /\ ~AttemptFails(call.replies[call.invocations])
     /\ GetD(call.replies[call.invocations].v.v, "recommendations", PyList(<<>>)).t = "list")
    => LET recs == call.replies[call.invocations].v.v.recommendations.v
           kept == Ascending(ValidPositions(recs))
           result == response.v.recommendations
       IN IF kept = <<>>
          THEN /\ Len(result) <= 1
               /\ \A i \in DOMAIN result :
                     result[i].reasoning = PyStr("Fallback recommendation")
          ELSE /\ Len(result) = Len(kept)
               /\ \A i \in DOMAIN kept :
                     /\ result[i].product_id =
                          Or(GetD(recs[kept[i]].v, "product_id", PyStr("")), PyStr("unknown_id"))
                     /\ result[i].reasoning =
                          Or(GetD(recs[kept[i]].v, "reasoning", PyStr("")),
                             PyStr("Recommended based on your preferences"))

\* six entries, of which the second names no product of the catalog and the
\* sixth is valid: four are returned
C34_Witness ==
    /\ call.op = "get_recommendations"
    /\ call.replies[call.invocations] = REPLY_SIX
    /\ valid_product_ids # {}
    /\ Len(response.v.recommendations) = 4
    /\ response.v.recommendations[3].product_id = PyStr("p2")

FallbackReasonings ==
    {PyStr("Fallback recommendation"), PyStr("Fallback recommendation due to processing error")}

\* C35: a fallback recommendation, synthesized by validation or hard-coded
\* after the last failed attempt, references the first product of the catalog
\* sequence the turn retrieved, so that the same catalog sequence always gives
\* the same fallback product_id.
C35_FallbackIsFirstOfCatalog ==
    (/\ call.op = "process"
     /\ "llm_response" \in DOMAIN call
     /\ call.retrieval.v # <<>>)
    => \A i \in DOMAIN call.llm_response.recommendations :
          call.llm_response.recommendations[i].reasoning \in FallbackReasonings
          => call.llm_response.recommendations[i].product_id = PyStr(call.retrieval.v[1].id)

-----------------------------------------------------------------------------
(* SpecMerge: the two merges on incoming values of every kind *)

\* incoming filters whose value for a list key is no list: a brand as a str,
\* a brand as a str next to a price, an empty str
ScalarForListInputs ==
    {Incoming([brand_exclude |-> BOSE]),
     Incoming([brand_include |-> SONY, price_max |-> PyNum(500)]),
     Incoming([features |-> PyText(<<>>)])}

\* incoming filters whose values are None, a list, an empty list, a number
ListInputs ==
    {F_NONE.v,
     Incoming([brand_exclude |-> PyList(<<ACME>>), price_max |-> PyNum(1000)]),
     Incoming([brand_include |-> PyList(<<>>), features |-> PyList(<<PyText(<<"w","i","f","i">>)>>)])}

MergeUpdateFilters == \E new \in ListInputs \cup ScalarForListInputs : UpdateFilters(new)

MergeMergeFilters == \E new \in ListInputs \cup ScalarForListInputs : MergeFilters(new)

NextMerge ==
    \/ MergeUpdateFilters
    \/ MergeMergeFilters
    \/ ClearFilters

SpecMerge == Init /\ [][NextMerge]_vars

\* a value that is neither None nor a list
IsScalar(x) == x.t \in {"str", "text", "num"}

\* the list keys for which new holds a scalar get that one value added
ScalarIsAdded(existing, new, result) ==
    /\ result # Raised
    /\ \A k \in ListKeys :
          IsScalar(Get(new, k))
          => Members(result, k) = Members(existing, k) \cup {new[k]}

\* C36: when the incoming filters hold a single scalar value for a set-valued
\* key, update_filters and _merge_filters do not fail and the result for that
\* key holds the existing members plus that one value.
C36_ScalarCoercedToOneElementSet ==
    [][/\ call'.op = "update_filters"
          => ScalarIsAdded(accumulated_filters, call'.new_filters, accumulated_filters')
       /\ call'.op = "_merge_filters"
          => ScalarIsAdded(call'.existing, call'.new, response'.v)]_vars

\* C40: _merge_filters(E, N) and update_filters(N) on a session holding E
\* give the same filter set (set-valued keys compared as sets), and neither
\* fails where the other succeeds.
C40_MergesAgree ==
    [][/\ call'.op = "update_filters"
          => \A merged \in _merge_filters(accumulated_filters, call'.new_filters) :
                merged # Raised /\ SameFilters(merged, accumulated_filters')
       /\ call'.op = "_merge_filters"
          => \A updated \in update_filters(call'.existing, call'.new) :
                response'.v # Raised /\ SameFilters(response'.v, updated)]_vars

\* the query holds one of the words
ContainsAny(query_lower, words) == \E w \in words : Contains(query_lower, w)

UnderWords == {<<"u","n","d","e","r">>, <<"l","e","s","s"," ","t","h","a","n">>, <<"b","e","l","o","w">>}

OverWords == {<<"o","v","e","r">>, <<"m","o","r","e"," ","t","h","a","n">>, <<"a","b","o","v","e">>}

\* C37: when the primary extraction fails, the result of extract is the
\* existing filters with only these changes: a number with under / less than
\* / below sets price_max to the smallest number; else a number with over /
\* more than / above sets price_min to the largest number; a number followed
\* by star or rating sets rating_min. A query whose only number is a star
\* rating leaves price_min and price_max as they were.
C37_RegexFallbackChanges ==
    (call.op = "extract" /\ call.llm = LlmFailed)
    => LET query_lower == Lower(call.query)
           numbers == Range(FindPrices(call.query, 1))
           under == numbers # {} /\ ContainsAny(query_lower, UnderWords)
           over == numbers # {} /\ ~under /\ ContainsAny(query_lower, OverWords)
           ratings == {i \in 1..Len(query_lower) : RatingAt(query_lower, i)}
           result == response.v
       IN /\ result # Raised
          /\ result["price_max"] =
                IF under THEN PyNum(MinOf(numbers)) ELSE call.existing["price_max"]
          /\ result["price_min"] =
                IF over THEN PyNum(MaxOf(numbers)) ELSE call.existing["price_min"]
          /\ result["rating_min"] =
                IF ratings # {} THEN PyNum(FloatOf(query_lower, MinOf(ratings)))
                ELSE call.existing["rating_min"]
          /\ \A k \in DOMAIN result \ {"price_max", "price_min", "rating_min"} :
                result[k] = call.existing[k]

\* C38: a process call that ends by raising leaves the session context as it
\* was before the call: history, accumulated filters and rejected ids.
C38_RaisingProcessLeavesContext ==
    [][(call'.op = "process" /\ response' = Raised)
       => /\ conversation_history' = conversation_history
          /\ accumulated_filters' = accumulated_filters
          /\ rejected_product_ids' = rejected_product_ids]_vars

-----------------------------------------------------------------------------
(* agent/prompt_builder.py: the products listed in the prompt *)

\* PromptBuilder._match_score(product, filters), times 1000. The price, brand
\* and rating tests give 0; a category that the product's category does not
\* contain halves the score (the categories of the products are single words
\* and no filter category is a part of one, so it is contained iff equal);
\* the products carry no "features", so requested features match none.
_match_score(product, filters) ==
    LET price_min == Get(filters, "price_min")
        price_max == Get(filters, "price_max")
        brand_include == Get(filters, "brand_include")
        brand_exclude == Get(filters, "brand_exclude")
        category == Get(filters, "category")
        rating_min == Get(filters, "rating_min")
        by_category == IF Truthy(category)
                          /\ ~(category.t = "str" /\ category.v = product.category)
                       THEN 500 ELSE 1000
    IN IF Truthy(price_min) /\ product.price < price_min.v THEN 0
       ELSE IF Truthy(price_max) /\ product.price > price_max.v THEN 0
       ELSE IF Truthy(brand_include) /\ PyStr(product.brand) \notin Range(brand_include.v) THEN 0
       ELSE IF Truthy(brand_exclude) /\ PyStr(product.brand) \in Range(brand_exclude.v) THEN 0
       ELSE IF Truthy(rating_min) /\ product.rating < rating_min.v THEN 0
       ELSE IF Truthy(Get(filters, "features")) THEN (by_category * 3) \div 10
       ELSE by_category

\* list.sort(key=score, reverse=True) on the products from position i: a
\* stable sort, each product being put before the first of a lower score
RECURSIVE SortedByScore(_, _, _)
SortedByScore(products, filters, i) ==
    IF i > Len(products)
    THEN <<>>
    ELSE LET rest == SortedByScore(products, filters, i + 1)
             score == _match_score(products[i], filters)
             ahead == {j \in DOMAIN rest : _match_score(rest[j], filters) > score}
             n == IF ahead = {} THEN 0 ELSE MaxOf(ahead)
         IN SubSeq(rest, 1, n) \o <<products[i]>> \o SubSeq(rest, n + 1, Len(rest))

\* PromptBuilder._apply_filters_to_products(products, filters)
_apply_filters_to_products(products, filters) ==
    LET Passes(p) == _match_score(p, filters) > 0
    IN SortedByScore(SelectSeq(products, Passes), filters, 1)

\* C39: when retrieval returns a non-empty catalog, every recommendation
\* returned by process references a product that passed the post-filtering
\* against the accumulated filters and was listed in the prompt.
C39_RecommendedWasShown ==
    (/\ call.op = "process"
     /\ response # Raised
     /\ call.retrieval # Raised
     /\ call.retrieval.v # <<>>)
    => \A i \in DOMAIN response.recommendations :
          \E p \in Range(_apply_filters_to_products(call.retrieval.v, response.filters)) :
             PyStr(p.id) = response.recommendations[i].product_id

\* C34 as stated: the recommendations of a validated result are the
\* subsequence of valid entries among the first 5 of the model's list, so
\* that with no valid entry among them the result holds no recommendation.
C34_ResultIsValidSubsequence ==
    (/\ call.op = "get_recommendations"
     /\ ~AttemptFails(call.replies[call.invocations])
     /\ GetD(call.replies[call.invocations].v.v, "recommendations", PyList(<<>>)).t = "list")
    => LET recs == call.replies[call.invocations].v.v.recommendations.v
           kept == Ascending(ValidPositions(recs))
           result == response.v.recommendations
       IN /\ Len(result) = Len(kept)
          /\ \A i \in DOMAIN kept :
                result[i].product_id =
                   Or(GetD(recs[kept[i]].v, "product_id", PyStr("")), PyStr("unknown_id"))

====
